---------------------------- MODULE Spec2Model ----------------------------
(***************************************************************************)
(* A model of the query orchestration pipeline of the natural-language to  *)
(* SQL assistant: SQLAssistantService.askStream and the services it        *)
(* sequences (context evaluation, schema retrieval through the cache, SQL  *)
(* generation, execution with one retry, response streaming, audit         *)
(* logging), and of the controller's per-(project, model) instance         *)
(* registry.                                                               *)
(*                                                                         *)
(* Text is modelled as a sequence of tokens: each token is an atomic       *)
(* substring of the real string and the string is the concatenation of its *)
(* tokens.  The token " " is one whitespace character.                     *)
(***************************************************************************)
EXTENDS Integers, Sequences, FiniteSets, TLC

VARIABLES
    pc,              \* position of the askStream run
    chatHistory,     \* askStream's chatHistory argument
    trace,           \* what the run did, in order: events yielded, collaborator calls
    clock,           \* Date.now() of the run, relative to its startTime
    loc,             \* askStream's local variables
    gae,             \* generateAndExecute's local variables
    err,             \* the exception in flight towards askStream's catch block
    logs,            \* the rows createLog inserted for this run
    cache,           \* the cache backend: key -> stored value
    lastTokenUsage,  \* AIService.lastTokenUsage of the instance's gateway
    registry,        \* assistantInstances, in insertion order: <<key, instance>>
    instances,       \* the SQLAssistantService instances constructed so far
    req,             \* the requests calling getAssistantInstance
    disc,            \* the disconnectProject handler
    runs,            \* the askStream runs that share one assistant instance
    latestCall,      \* the latest generateContent call completed on that instance's gateway
    unit             \* the latest direct call of a service method: its arguments and result

vars == <<pc, chatHistory, trace, clock, loc, gae, err, logs, cache,
          lastTokenUsage, registry, instances, req, disc, runs, latestCall, unit>>

runVars == <<pc, chatHistory, trace, clock, loc, gae, err, logs, cache, lastTokenUsage>>
regVars == <<registry, instances, req, disc>>
concVars == <<runs, latestCall>>
unitVars == <<unit>>

-----------------------------------------------------------------------------
(* Bounds of the model *)

\* longest stream of chunks the gateway delivers for one response
MaxChunks == 2
\* most rows one statement returns
MaxRows == 2
\* number of concurrent requests calling getAssistantInstance
NumRequests == 2
\* most SQLAssistantService instances constructed in one behaviour
MaxInstances == 3
\* number of askStream runs interleaved on one assistant instance
NumRuns == 2
\* longest chat history, in tokens, handed to a service method called directly
MaxHistory == 2

-----------------------------------------------------------------------------
(* Text helpers *)

WS == " "

\* the line separator
NL == "\n"

\* the white space of String.prototype.trim and of \s: blanks and line breaks
RECURSIVE TrimStart(_)
TrimStart(s) == IF s /= <<>> /\ Head(s) \in {WS, NL} THEN TrimStart(Tail(s)) ELSE s

RECURSIVE TrimEnd(_)
TrimEnd(s) ==
    IF s /= <<>> /\ s[Len(s)] \in {WS, NL}
    THEN TrimEnd(SubSeq(s, 1, Len(s) - 1)) ELSE s

\* a trim that removes nothing
TrimNothing(s) == s

\* String.prototype.trim
Trim(s) == TrimEnd(TrimStart(s))

\* String.prototype.toUpperCase, token by token: every token of the texts below
\* that holds a lower-case letter has its arm; the others are their own upper case
ToUpper(t) ==
    CASE t = "select" -> "SELECT"
      [] t = "insert" -> "INSERT"
      [] t = "update" -> "UPDATE"
      [] t = "delete" -> "DELETE"
      [] t = "with" -> "WITH"
      [] t = "show" -> "SHOW"
      [] t = "describe" -> "DESCRIBE"
      [] t = "explain" -> "EXPLAIN"
      [] t = "drop" -> "DROP"
      [] t = "sql" -> "SQL"
      [] t = "query:" -> "QUERY:"
      [] t = "query" -> "QUERY"
      [] t = "sufficient" -> "SUFFICIENT"
      [] t = "need_more_data" -> "NEED_MORE_DATA"
      [] t = "decision:" -> "DECISION:"
      [] t = "reasoning:" -> "REASONING:"
      [] t = "no relevant data" -> "NO RELEVANT DATA"
      [] t = "no_relevant_data" -> "NO_RELEVANT_DATA"
      [] t = "sorry, " -> "SORRY, "
      [] t = "maybe" -> "MAYBE"
      [] t = "i think " -> "I THINK "
      [] t = "r" -> "R"
      [] t = "user: hi" -> "USER: HI"
      [] t = "assistant: 42" -> "ASSISTANT: 42"
      [] t = "rule" -> "RULE"
      [] t = "answer" -> "ANSWER"
      [] t = "words" -> "WORDS"
      [] t = "sql query:" -> "SQL QUERY:"
      [] t = "users" -> "USERS"
      [] t = "orders" -> "ORDERS"
      [] t = "ghost" -> "GHOST"
      [] t = "id" -> "ID"
      [] t = "bio" -> "BIO"
      [] t = "a" -> "A"
      [] t = "b" -> "B"
      [] t = "No Relevant Data" -> "NO RELEVANT DATA"
      [] t = "Sorry, " -> "SORRY, "
      [] t = "I think " -> "I THINK "
      [] t = "Select" -> "SELECT"
      [] t = "Decision:" -> "DECISION:"
      [] t = "Reasoning:" -> "REASONING:"
      [] OTHER -> t

\* String.prototype.toLowerCase, token by token
ToLower(t) ==
    CASE t = "SELECT" -> "select"
      [] t = "INSERT" -> "insert"
      [] t = "UPDATE" -> "update"
      [] t = "DELETE" -> "delete"
      [] t = "WITH" -> "with"
      [] t = "SHOW" -> "show"
      [] t = "DESCRIBE" -> "describe"
      [] t = "EXPLAIN" -> "explain"
      [] t = "DROP" -> "drop"
      [] t = "SQL" -> "sql"
      [] t = "QUERY:" -> "query:"
      [] t = "QUERY" -> "query"
      [] t = "SUFFICIENT" -> "sufficient"
      [] t = "NEED_MORE_DATA" -> "need_more_data"
      [] t = "DECISION:" -> "decision:"
      [] t = "REASONING:" -> "reasoning:"
      [] t = "NO RELEVANT DATA" -> "no relevant data"
      [] t = "NO_RELEVANT_DATA" -> "no_relevant_data"
      [] t = "SORRY, " -> "sorry, "
      [] t = "MAYBE" -> "maybe"
      [] t = "I THINK " -> "i think "
      [] t = "R" -> "r"
      [] t = "USER: HI" -> "user: hi"
      [] t = "ASSISTANT: 42" -> "assistant: 42"
      [] t = "RULE" -> "rule"
      [] t = "ANSWER" -> "answer"
      [] t = "WORDS" -> "words"
      [] t = "SQL QUERY:" -> "sql query:"
      [] t = "USERS" -> "users"
      [] t = "ORDERS" -> "orders"
      [] t = "GHOST" -> "ghost"
      [] t = "ID" -> "id"
      [] t = "BIO" -> "bio"
      [] t = "A" -> "a"
      [] t = "B" -> "b"
      [] t = "No Relevant Data" -> "no relevant data"
      [] t = "Sorry, " -> "sorry, "
      [] t = "I think " -> "i think "
      [] t = "Select" -> "select"
      [] t = "Decision:" -> "decision:"
      [] t = "Reasoning:" -> "reasoning:"
      [] OTHER -> t

\* positions of the token t in s
Positions(s, t) == {i \in 1..Len(s) : s[i] = t}

Min(S) == CHOOSE x \in S : \A y \in S : x <= y

-----------------------------------------------------------------------------
(* utils/sql-utils.ts *)

\* the markdown code fence (three backticks)
FENCE == "[fence]"

\* extractSQLQuery: the body of the first fenced block (an optional "sql" tag and
\* the surrounding whitespace dropped), else the text without a leading
\* "sql query:" / "query:" label, trimmed.
extractSQLQuery(text) ==
    LET fences == Positions(text, FENCE) IN
    IF Cardinality(fences) >= 2
    THEN LET i == Min(fences)
             j == Min(fences \ {i})
             body == SubSeq(text, i + 1, j - 1)
             untagged == IF body /= <<>> /\ ToUpper(Head(body)) = "SQL"
                         THEN Tail(body) ELSE body
         IN Trim(untagged)
    ELSE LET label(n) == Len(text) >= n /\ ToUpper(text[n]) \in {"QUERY:", "QUERY"}
             cleaned ==
                 IF Len(text) >= 3 /\ ToUpper(text[1]) = "SQL" /\ text[2] = WS /\ label(3)
                 THEN TrimStart(SubSeq(text, 4, Len(text)))
                 ELSE IF label(1) THEN TrimStart(Tail(text)) ELSE text
         IN Trim(cleaned)

SqlKeywords ==
    {"SELECT", "INSERT", "UPDATE", "DELETE", "WITH", "SHOW", "DESCRIBE", "EXPLAIN"}

\* isValidSQL: non-blank and, after leading whitespace, starts with a keyword
isValidSQL(query) ==
    /\ Trim(query) /= <<>>
    /\ ToUpper(Head(TrimStart(query))) \in SqlKeywords

\* isNoRelevantData
isNoRelevantData(query) ==
    \/ \E i \in 1..Len(query) : query[i] = "NO_RELEVANT_DATA"
    \/ \E i \in 1..Len(query) : ToLower(query[i]) = "no relevant data"

NO_RELEVANT_DATA == <<"NO_RELEVANT_DATA">>

-----------------------------------------------------------------------------
(* types/errors.ts: an exception is its class and its message *)

\* an optional value: null or undefined is the empty tuple
Null == <<>>
Some(v) == <<v>>
ValueOf(opt) == opt[1]

NoErr == [type |-> "none", msg |-> <<>>, query |-> Null]

Error(type, msg) == [type |-> type, msg |-> msg, query |-> Null]

\* a QueryExecutionError that does not keep the statement
QueryExecutionErrorWithoutQuery(msg, query) ==
    [type |-> "QueryExecutionError", msg |-> msg, query |-> Null]

\* new QueryExecutionError(message, query)
QueryExecutionError(msg, query) ==
    [type |-> "QueryExecutionError", msg |-> msg, query |-> Some(query)]

\* what a collaborator outside the repository raises (driver, redis, provider)
DriverError(what) == Error("Error", <<what>>)

\* new X(`prefix ${error.message}`)
Wrap(type, prefix, e) == Error(type, <<prefix>> \o e.msg)

\* new X(`prefix ${error}`): the error is converted to text, its name before
\* its message
WrapText(type, prefix, e) == Error(type, <<prefix, e.type, ": ">> \o e.msg)

-----------------------------------------------------------------------------
(* services/sql-assistant/context-evaluation.service.ts *)

RECURSIVE SkipWs(_, _)
SkipWs(s, i) == IF i <= Len(s) /\ s[i] \in {WS, NL} THEN SkipWs(s, i + 1) ELSE i

\* the places where /DECISION:\s*(SUFFICIENT|NEED_MORE_DATA)/i matches
DecisionMatches(response) ==
    {i \in 1..Len(response) :
        /\ ToUpper(response[i]) = "DECISION:"
        /\ SkipWs(response, i + 1) <= Len(response)
        /\ ToUpper(response[SkipWs(response, i + 1)]) \in {"SUFFICIENT", "NEED_MORE_DATA"}}

\* the places where /REASONING:\s*(.+)/i matches: a character other than a line
\* break follows
ReasoningMatches(response) ==
    {i \in 1..Len(response) :
        /\ ToUpper(response[i]) = "REASONING:"
        /\ \E j \in (i + 1)..Len(response) : response[j] /= NL}

\* reasoningMatch ? reasoningMatch[1].trim() : 'No reasoning provided'; the
\* capture is the rest of the line after the white space
parsedReasoning(response) ==
    IF ReasoningMatches(response) = {} THEN <<"No reasoning provided">>
    ELSE LET k == SkipWs(response, Min(ReasoningMatches(response)) + 1)
             stop == Min({j \in k..Len(response) : response[j] = NL}
                         \cup {Len(response) + 1})
         IN Trim(SubSeq(response, k, stop - 1))

\* the gateway's answer to one call: a text, or a failure
AiOk(text) == [ok |-> TRUE, text |-> text]
AiFail == [ok |-> FALSE, text |-> <<>>]

\* an evaluateContext that trusts the history when the model call fails
evaluateContextSkipsOnFailure(history, ai) ==
    IF Trim(history) = <<>>
    THEN [decision |-> "NEED_MORE_DATA", reasoning |-> <<"No chat history available">>,
          modelCalls |-> 0]
    ELSE IF ~ai.ok \/ DecisionMatches(ai.text) = {}
    THEN [decision |-> "SUFFICIENT", reasoning |-> <<"Error during evaluation">>,
          modelCalls |-> 1]
    ELSE LET i == Min(DecisionMatches(ai.text)) IN
         [decision |-> ToUpper(ai.text[SkipWs(ai.text, i + 1)]),
          reasoning |-> parsedReasoning(ai.text), modelCalls |-> 1]

\* ContextEvaluationService.evaluateContext; ai is the light model's answer,
\* used only if the model is called
evaluateContext(history, ai) ==
    IF Trim(history) = <<>>
    THEN [decision |-> "NEED_MORE_DATA", reasoning |-> <<"No chat history available">>,
          modelCalls |-> 0]
    ELSE IF ~ai.ok
    THEN [decision |-> "NEED_MORE_DATA",
          reasoning |-> <<"Error during evaluation: ", "Failed to generate content: ",
                          "provider error">>,
          modelCalls |-> 1]
    ELSE IF DecisionMatches(ai.text) = {}
    THEN [decision |-> "NEED_MORE_DATA",
          reasoning |-> <<"Failed to parse evaluation response">>, modelCalls |-> 1]
    ELSE LET i == Min(DecisionMatches(ai.text)) IN
         [decision |-> ToUpper(ai.text[SkipWs(ai.text, i + 1)]),
          reasoning |-> parsedReasoning(ai.text), modelCalls |-> 1]

-----------------------------------------------------------------------------
(* The project of the assistant instance and its target database *)

\* projectConfig.tables of the instance
ProjectTables == <<"users", "orders", "ghost">>

\* SHOW TABLES of the target database
DbTables == <<"orders", "users">>

\* INFORMATION_SCHEMA.COLUMNS of a table, by ordinal position: name, type, nullable
DbColumns(t) ==
    CASE t = "orders" -> << <<"id", "int", "NO">>, <<"total", "varchar(9)", "YES">> >>
      [] t = "users" -> << <<"id", "int", "NO">>, <<"bio", "text", "YES">> >>
      [] OTHER -> <<>>

\* SELECT * FROM t LIMIT 1: the first row (column name -> text), if the table has one
DbSampleRow(t) ==
    CASE t = "orders" -> Some([id |-> <<"1">>, total |-> <<"9", ",", "5">>])
      [] t = "users" -> Some([id |-> <<"7">>, bio |-> <<"a", NL, "b">>])
      [] OTHER -> Null

\* how the target database answers during one schema fetch
DbOutcomes == {"ok", "tablesFail", "columnsFail", "sampleFail"}

\* the answers drawn during an askStream run
RunDbOutcomes == {"ok", "tablesFail", "columnsFail"}

-----------------------------------------------------------------------------
(* config/cache.config.ts, utils/cache-utils.ts *)

Includes(seq, x) == \E i \in 1..Len(seq) : seq[i] = x

\* Array.prototype.sort on table names
RECURSIVE SortNames(_)
SortNames(names) ==
    IF names = <<>> THEN <<>>
    ELSE LET order == <<"ghost", "orders", "users">>
             rank(n) == CHOOSE i \in 1..Len(order) : order[i] = n
             m == CHOOSE i \in 1..Len(names) :
                      \A j \in 1..Len(names) : rank(names[i]) <= rank(names[j])
         IN <<names[m]>> \o SortNames(SubSeq(names, 1, m - 1) \o SubSeq(names, m + 1, Len(names)))

ProjectId == 1

generateSchemaKey(projectId, tableNames) == <<"schema", projectId>> \o SortNames(tableNames)
generateBusinessRuleKey(projectId) == <<"business-rule", projectId>>
generateTablesKey(projectId) == <<"tables", projectId>>

\* the table name lists getTableSchemaAsCSV is called with directly, and all
\* of them: the instance's own list is the one askStream and ask pass
DirectRequests == {<<"users", "orders">>, <<"orders", "users">>, <<"ghost", "users">>}
SchemaRequests == {ProjectTables} \cup DirectRequests

CacheKeys ==
    {generateSchemaKey(ProjectId, t) : t \in SchemaRequests}
    \cup {generateBusinessRuleKey(ProjectId), generateTablesKey(ProjectId)}

JsonStringify(v) == <<"json", v>>
JsonParse(text) == text[2]

Thrown(e) == [ok |-> FALSE, value |-> <<>>, err |-> e]
Returned(v) == [ok |-> TRUE, value |-> v, err |-> NoErr]

\* getCached: the parsed entry, null when there is none, CacheError when redis raises
getCached(store, key, redisUp) ==
    IF ~redisUp
    THEN Thrown(WrapText("CacheError", "Failed to get cached value: ", DriverError("redis down")))
    ELSE IF store[key] = Null THEN Returned(Null)
    ELSE Returned(Some(JsonParse(ValueOf(store[key]))))

\* setCached: the store after setex, CacheError when redis raises
setCached(store, key, value, redisUp) ==
    IF ~redisUp
    THEN [ok |-> FALSE, store |-> store,
          err |-> WrapText("CacheError", "Failed to set cached value: ",
                           DriverError("redis down"))]
    ELSE [ok |-> TRUE, store |-> [store EXCEPT ![key] = Some(JsonStringify(value))], err |-> NoErr]

\* deleteCached: the store after del, CacheError when redis raises
deleteCached(store, key, redisUp) ==
    IF ~redisUp
    THEN [ok |-> FALSE, store |-> store,
          err |-> WrapText("CacheError", "Failed to delete cached value: ",
                           DriverError("redis down"))]
    ELSE [ok |-> TRUE, store |-> [store EXCEPT ![key] = Null], err |-> NoErr]

\* the patterns deletePattern is called with: a key prefix before the "*"
Patterns == {<<"schema", ProjectId>>, <<"schema">>, <<"business-rule">>, <<"nothing">>}

\* redis.keys(pattern): the stored keys the pattern matches
KeysMatching(store, prefix) ==
    {k \in DOMAIN store :
        /\ store[k] /= Null
        /\ Len(k) >= Len(prefix)
        /\ SubSeq(k, 1, Len(prefix)) = prefix}

\* deletePattern: every matching key is deleted by one del, which is not called
\* when no key matches; CacheError when keys or del raises
deletePattern(store, prefix, keysUp, delUp) ==
    LET keys == KeysMatching(store, prefix) IN
    IF ~keysUp \/ (keys /= {} /\ ~delUp)
    THEN [ok |-> FALSE, store |-> store,
          err |-> WrapText("CacheError", "Failed to delete cached pattern: ",
                           DriverError("redis down"))]
    ELSE [ok |-> TRUE, store |-> [k \in DOMAIN store |-> IF k \in keys THEN Null ELSE store[k]],
          err |-> NoErr]

\* a getOrSetCached that returns the factory's value without storing it
getOrSetCachedNeverStores(store, key, getUp, setUp, factory) ==
    LET got == getCached(store, key, getUp) IN
    IF ~got.ok
    THEN [ok |-> FALSE, value |-> <<>>, err |-> got.err, store |-> store, factoryRan |-> FALSE]
    ELSE IF got.value /= Null
    THEN [ok |-> TRUE, value |-> ValueOf(got.value), err |-> NoErr, store |-> store,
          factoryRan |-> FALSE]
    ELSE [ok |-> factory.ok, value |-> factory.value, err |-> factory.err, store |-> store,
          factoryRan |-> TRUE]

\* getOrSetCached: factory is the outcome the factory has if it is called.
\* The result carries the store afterwards and whether the factory ran.
getOrSetCached(store, key, getUp, setUp, factory) ==
    LET got == getCached(store, key, getUp) IN
    IF ~got.ok
    THEN [ok |-> FALSE, value |-> <<>>, err |-> got.err, store |-> store, factoryRan |-> FALSE]
    ELSE IF got.value /= Null
    THEN [ok |-> TRUE, value |-> ValueOf(got.value), err |-> NoErr, store |-> store,
          factoryRan |-> FALSE]
    ELSE IF ~factory.ok
    THEN [ok |-> FALSE, value |-> <<>>, err |-> factory.err, store |-> store,
          factoryRan |-> TRUE]
    ELSE LET put == setCached(store, key, factory.value, setUp) IN
         IF ~put.ok
         THEN [ok |-> FALSE, value |-> <<>>, err |-> put.err, store |-> store,
               factoryRan |-> TRUE]
         ELSE [ok |-> TRUE, value |-> factory.value, err |-> NoErr, store |-> put.store,
               factoryRan |-> TRUE]

-----------------------------------------------------------------------------
(* services/sql-assistant/database.service.ts, schema.service.ts (SchemaService) *)

\* DatabaseService.getTables
getTables(db) ==
    IF db = "tablesFail"
    THEN Thrown(Wrap("DatabaseConnectionError", "Failed to get tables: ",
                     DriverError("connection lost")))
    ELSE Returned(DbTables)

\* String(sampleValue).replace(/,/g, ';')
EscapeCommas(text) == [i \in 1..Len(text) |-> IF text[i] = "," THEN ";" ELSE text[i]]

\* getSampleRow: the probe's row, null when the table is empty or the probe fails
getSampleRow(t, db) == IF db = "sampleFail" THEN Null ELSE DbSampleRow(t)

\* Array.prototype.join: the texts with the separator between them
RECURSIVE Join(_, _)
Join(texts, sep) ==
    IF texts = <<>> THEN <<>>
    ELSE IF Len(texts) = 1 THEN texts[1]
    ELSE texts[1] \o <<sep>> \o Join(Tail(texts), sep)

\* the entries csvLines.push adds for one table: one per column, in ordinal
\* position, each the text `${tableName},${columnName},${type},${nullable},${sampleStr}`
TableLines(t, db) ==
    LET cols == DbColumns(t)
        row == getSampleRow(t, db)
        sample(c) == IF row /= Null /\ c \in DOMAIN ValueOf(row)
                     THEN EscapeCommas(ValueOf(row)[c]) ELSE <<>>
    IN [i \in 1..Len(cols) |->
            <<t, ",", cols[i][1], ",", cols[i][2], ",", cols[i][3], ",">>
            \o sample(cols[i][1])]

CsvHeader == <<"Table_Name", ",", "Column_Name", ",", "Type", ",", "Nullable", ",",
               "Sample_Content">>

RECURSIVE SchemaLines(_, _, _)
SchemaLines(tableNames, available, db) ==
    IF tableNames = <<>> THEN <<>>
    ELSE (IF Includes(available, Head(tableNames))
          THEN TableLines(Head(tableNames), db) ELSE <<>>)
         \o SchemaLines(Tail(tableNames), available, db)

\* SchemaService.fetchTableSchema: csvLines.join('\n')
fetchTableSchema(tableNames, db) ==
    LET tables == getTables(db) IN
    IF ~tables.ok
    THEN Thrown(Wrap("SchemaRetrievalError", "Failed to fetch schema: ", tables.err))
    ELSE IF db = "columnsFail" /\ \E i \in 1..Len(tableNames) : Includes(tables.value, tableNames[i])
    THEN Thrown(Wrap("SchemaRetrievalError", "Failed to fetch schema: ",
                     DriverError("query failed")))
    ELSE Returned(Join(<<CsvHeader>> \o SchemaLines(tableNames, tables.value, db), NL))

\* SchemaService.getTableSchemaAsCSV
getTableSchemaAsCSV(store, tableNames, getUp, setUp, db) ==
    LET r == getOrSetCached(store, generateSchemaKey(ProjectId, tableNames), getUp, setUp,
                            fetchTableSchema(tableNames, db))
    IN IF r.ok THEN r
       ELSE [r EXCEPT !.err = Wrap("SchemaRetrievalError", "Failed to retrieve schema: ", r.err)]

\* SchemaService.getAvailableTables
getAvailableTables(store, getUp, setUp, db) ==
    LET r == getOrSetCached(store, generateTablesKey(ProjectId), getUp, setUp, getTables(db))
    IN IF r.ok THEN r
       ELSE [r EXCEPT !.err = Wrap("SchemaRetrievalError", "Failed to get tables: ", r.err)]

-----------------------------------------------------------------------------
(* services/sql-assistant/business-rule.service.ts *)

\* projectConfig.businessRule of the instance
BusinessRule == <<"rule">>

\* the cache backend's condition during one call: reads succeed unless it is
\* down, writes need it fully up
RedisStates == {"up", "readonly", "down"}
GetUp(r) == r /= "down"
SetUp(r) == r = "up"

\* a getBusinessRule that lets the failure of the cache reach its caller
getBusinessRuleWithoutFallback(businessRule, store, r) ==
    IF businessRule = <<>>
    THEN [ok |-> TRUE, value |-> <<>>, store |-> store, cacheUsed |-> FALSE,
          factoryRan |-> FALSE]
    ELSE LET c == getOrSetCached(store, generateBusinessRuleKey(ProjectId), GetUp(r), SetUp(r),
                                 Returned(businessRule))
         IN [ok |-> c.ok, value |-> c.value, store |-> c.store, cacheUsed |-> TRUE,
             factoryRan |-> c.factoryRan]

\* BusinessRuleService.getBusinessRule: the rule and the store afterwards, and
\* whether the cache was asked and the factory ran
getBusinessRule(businessRule, store, r) ==
    IF businessRule = <<>>
    THEN [ok |-> TRUE, value |-> <<>>, store |-> store, cacheUsed |-> FALSE,
          factoryRan |-> FALSE]
    ELSE LET c == getOrSetCached(store, generateBusinessRuleKey(ProjectId), GetUp(r), SetUp(r),
                                 Returned(businessRule))
         IN IF c.ok
            THEN [ok |-> TRUE, value |-> c.value, store |-> c.store, cacheUsed |-> TRUE,
                  factoryRan |-> c.factoryRan]
            ELSE [ok |-> TRUE, value |-> businessRule, store |-> c.store, cacheUsed |-> TRUE,
                  factoryRan |-> c.factoryRan]

\* BusinessRuleService.formatForPrompt
formatForPrompt(businessRule, store, r) ==
    LET rule == getBusinessRule(businessRule, store, r) IN
    [rule EXCEPT !.value = IF ~rule.ok \/ Trim(rule.value) = <<>> THEN <<>>
                           ELSE <<NL, "Business Rules:", NL>> \o rule.value \o <<NL>>]

-----------------------------------------------------------------------------
(* services/sql-assistant/ai.service.ts, schema.service.ts (QueryService) *)

\* the usage metadata the provider returns with the answer to a call
UsageOf(call) == Some(call)

\* a generateContent that does not store the usage metadata of its call
generateContentStoresNoUsage(ai, call, usageBefore) ==
    IF ai.ok
    THEN [ok |-> TRUE, value |-> ai.text, err |-> NoErr, usage |-> usageBefore]
    ELSE [ok |-> FALSE, value |-> <<>>,
          err |-> Wrap("AIServiceError", "Failed to generate content: ",
                       DriverError("provider error")),
          usage |-> usageBefore]

\* AIService.generateContent: the text, or AIServiceError; usage is what the call
\* leaves in lastTokenUsage
generateContent(ai, call, usageBefore) ==
    IF ai.ok
    THEN [ok |-> TRUE, value |-> ai.text, err |-> NoErr, usage |-> UsageOf(call)]
    ELSE [ok |-> FALSE, value |-> <<>>,
          err |-> Wrap("AIServiceError", "Failed to generate content: ",
                       DriverError("provider error")),
          usage |-> usageBefore]

\* AIService.generateContentStream: what a stream call leaves in lastTokenUsage;
\* it stores no usage metadata
UsageAfterStream(usageBefore) == usageBefore

\* QueryService.generateSQLQuery, after the prompt is built: the statement, the
\* sentinel, or the exception (rethrown as caught); call names the gateway call
generateSQLQuery(ai, call, usageBefore) ==
    LET response == generateContent(ai, call, usageBefore)
        sqlQuery == extractSQLQuery(response.value)
    IN IF ~response.ok THEN response
       ELSE IF isNoRelevantData(sqlQuery) THEN [response EXCEPT !.value = NO_RELEVANT_DATA]
       ELSE IF ~isValidSQL(sqlQuery)
       THEN [response EXCEPT !.ok = FALSE, !.value = <<>>,
                             !.err = QueryExecutionError(
                                         <<"Generated query is not valid SQL">>, sqlQuery)]
       ELSE [response EXCEPT !.value = sqlQuery]

\* how the target database answers a statement: a failure or a number of rows
DbFail == -1
DbAnswers == {DbFail} \cup (0..MaxRows)

\* the rows a statement produces: each names the statement it answers
RowsOf(sql, n) == [i \in 1..n |-> <<sql, i>>]

\* QueryService.executeQuery: the statement goes to the driver as it is, and
\* answer is what the driver does with it
executeQuery(sqlQuery, answer) ==
    IF answer = DbFail
    THEN [ok |-> FALSE, value |-> <<>>, query |-> sqlQuery,
          err |-> QueryExecutionError(<<"Query execution failed: ", "driver error">>,
                                      sqlQuery)]
    ELSE [ok |-> TRUE, value |-> RowsOf(sqlQuery, answer), query |-> sqlQuery, err |-> NoErr]

\* what the model may answer to a SQL generation prompt
SqlResponses ==
    { <<"SELECT", " ", "1">>,
      <<FENCE, "sql", " ", "SELECT", " ", "2", " ", FENCE>>,
      <<"query:", " ", "SELECT", " ", "1">>,
      <<"NO_RELEVANT_DATA">>,
      <<"Sorry, ", "No Relevant Data">>,
      <<"DROP", " ", "1">>,
      <<>> }

\* what the light model may answer to the context evaluation prompt
EvalResponses ==
    { <<"DECISION:", " ", "SUFFICIENT", " ", "REASONING:", " ", "r">>,
      <<"decision:", "sufficient">>,
      <<"DECISION:", " ", "NEED_MORE_DATA">>,
      <<"SUFFICIENT">> }

AiAnswers(texts) == {AiFail} \cup {AiOk(t) : t \in texts}

-----------------------------------------------------------------------------
(* services/sql-assistant/response.service.ts *)

ChunkKinds == {"text", "generate_chart", "other_call"}

\* what AIService.generateContentStream yields for one provider chunk
GatewayChunk(kind) ==
    IF kind = "text" THEN [type |-> "text", name |-> "", payload |-> <<"words">>]
    ELSE [type |-> "function_call", name |-> kind, payload |-> <<"args">>]

\* the provider's streams: up to MaxChunks chunks, then the end or a failure
RECURSIVE SeqsUpTo(_, _)
SeqsUpTo(S, n) ==
    IF n = 0 THEN {<<>>}
    ELSE SeqsUpTo(S, n - 1) \cup {Append(q, x) : q \in SeqsUpTo(S, n - 1), x \in S}

GatewayStreams ==
    {[chunks |-> q, fails |-> f] : q \in SeqsUpTo(ChunkKinds, MaxChunks), f \in BOOLEAN}

\* the chunks ResponseService yields for the gateway chunks it receives
RECURSIVE ResponseChunks(_)
ResponseChunks(kinds) ==
    IF kinds = <<>> THEN <<>>
    ELSE LET chunk == GatewayChunk(Head(kinds)) IN
         (IF chunk.type = "text" THEN <<[type |-> "text", payload |-> chunk.payload]>>
          ELSE IF chunk.type = "function_call" /\ chunk.name = "generate_chart"
          THEN <<[type |-> "chart", payload |-> chunk.payload]>>
          ELSE <<>>)
         \o ResponseChunks(Tail(kinds))

\* ResponseService.generateResponseStream and generateResponseFromHistoryStream:
\* a failure of the gateway becomes one more text chunk
generateResponseStream(stream) ==
    ResponseChunks(stream.chunks)
    \o (IF stream.fails
        THEN <<[type |-> "text",
                payload |-> <<"Error generating response: ",
                              "Failed to generate content stream: ", "provider error">>]>>
        ELSE <<>>)

-----------------------------------------------------------------------------
(* services/sql-assistant/sql-assistant.service.ts: askStream *)

Ev(type, content) == [k |-> "event", type |-> type, content |-> content]
Call(name, arg, ok) == [k |-> "call", type |-> name, content |-> arg, ok |-> ok]

\* one call of a collaborator takes one tick of the clock
Tick == 1

\* askStream's locals as declared at its top
InitLoc ==
    [contextEvaluationTime |-> 0, schemaFetchTime |-> 0, sqlGenerationTime |-> 0,
     queryExecutionTime |-> 0, responseGenerationTime |-> 0, generatedSql |-> <<>>,
     rowCount |-> 0, tokenUsage |-> Null, status |-> "success", errorMessage |-> Null,
     ragSkipped |-> FALSE, contextDecision |-> "", schema |-> Null, sqlStart |-> 0,
     sql |-> <<>>, rows |-> <<>>]

InitGae ==
    [sql |-> <<>>, sqlNew |-> Null, rows |-> <<>>, timeStart |-> 0, executionTime |-> 0,
     lastError |-> NoErr, returned |-> Null]

\* an askStream that evaluates the context whatever the history
HistoryHasContentAlways(history) == TRUE

\* chatHistory && chatHistory.trim().length > 0
HistoryHasContent(history) == history /= <<>> /\ Len(Trim(history)) > 0

Histories == {<<>>, <<" ">>, <<"user: hi">>}

\* a call of askStream: the generator is created with its locals
AskStream(history) ==
    /\ pc \in {"idle", "done", "threw"}
    /\ chatHistory' = history
    /\ trace' = <<>>
    /\ clock' = 0
    /\ loc' = InitLoc
    /\ gae' = InitGae
    /\ err' = NoErr
    /\ logs' = <<>>
    /\ pc' = IF HistoryHasContent(history) THEN "evaluate" ELSE "schema"
    /\ UNCHANGED <<cache, lastTokenUsage, regVars, concVars, unitVars>>

\* step 0: the context evaluation
EvaluateContext(ai) ==
    /\ pc = "evaluate"
    /\ LET evaluation == evaluateContext(chatHistory, ai) IN
       /\ trace' = trace \o <<Ev("status", <<"Evaluating context...">>),
                              Call("evaluateContext",
                                   [answer |-> ai, modelCalls |-> evaluation.modelCalls], TRUE)>>
       /\ clock' = clock + Tick
       /\ loc' = [loc EXCEPT !.contextEvaluationTime = clock' - clock,
                             !.contextDecision = evaluation.decision,
                             !.ragSkipped = (evaluation.decision = "SUFFICIENT")]
       /\ pc' = IF evaluation.decision = "SUFFICIENT" THEN "respondHistory" ELSE "schema"
    /\ UNCHANGED <<chatHistory, gae, err, logs, cache, lastTokenUsage, regVars, concVars, unitVars>>

ContentEvents(chunks) == [i \in 1..Len(chunks) |-> Ev("content", chunks[i])]

\* the context-sufficient path: the answer is streamed from the history
RespondFromHistory(stream) ==
    /\ pc = "respondHistory"
    /\ clock' = clock + Tick
    /\ loc' = [loc EXCEPT !.responseGenerationTime = clock' - clock,
                          !.tokenUsage = UsageAfterStream(lastTokenUsage)]
    /\ trace' = trace \o <<Ev("status", <<"Generating response from context...">>),
                           Call("generateResponseFromHistoryStream", chatHistory, ~stream.fails)>>
                      \o ContentEvents(generateResponseStream(stream))
                      \o <<Ev("metadata", [ragSkipped |-> TRUE]),
                           Ev("done", <<"Done">>)>>
    /\ lastTokenUsage' = UsageAfterStream(lastTokenUsage)
    /\ pc' = "logSufficient"
    /\ UNCHANGED <<chatHistory, gae, err, logs, cache, regVars, concVars, unitVars>>

\* step 1: the schema
FetchSchema(redis, db) ==
    /\ pc = "schema"
    /\ LET r == getTableSchemaAsCSV(cache, ProjectTables, GetUp(redis), SetUp(redis), db) IN
       /\ trace' = trace \o <<Ev("status", <<"Analyzing database schema...">>),
                              Call("getTableSchemaAsCSV", ProjectTables, r.ok)>>
       /\ clock' = clock + Tick
       /\ cache' = r.store
       /\ IF r.ok
          THEN /\ loc' = [loc EXCEPT !.schema = Some(r.value),
                                     !.schemaFetchTime = clock' - clock]
               /\ err' = err
               /\ pc' = "gen1"
          ELSE /\ loc' = loc
               /\ err' = r.err
               /\ pc' = "catch"
    /\ UNCHANGED <<chatHistory, gae, logs, lastTokenUsage, regVars, concVars, unitVars>>

\* generateAndExecute's test of the first generation's result
\* a generateAndExecute that never recognises the sentinel
IsSentinelNever(sql) == FALSE

\* sql === 'NO_RELEVANT_DATA'
IsSentinel(sql) == sql = NO_RELEVANT_DATA

\* the value generateAndExecute returns
ReturnOf(sql, rows, executionTime) ==
    Some([sql |-> sql, rows |-> rows, executionTime |-> executionTime])

\* the statement generateAndExecute names in its result after the retry
SqlReturnedAfterRetry(g) == g.sql

\* a generateAndExecute that answers every failed execution by a regeneration
AfterExecutionFailureAlwaysRetries(attempt) == "gen2"

\* where generateAndExecute goes when an execution fails: the first failure is
\* caught and answered by one regeneration, the second propagates
AfterExecutionFailure(attempt) == IF attempt = 1 THEN "gen2" ELSE "catch"

\* step 2, generateAndExecute: the first generation
GenerateSQL(redis, ai) ==
    /\ pc = "gen1"
    /\ LET r == generateSQLQuery(ai, "generateSQLQuery", lastTokenUsage) IN
       /\ trace' = trace \o <<Ev("status", <<"Generating SQL query...">>),
                              Call("generateSQLQuery", [last |-> Null, error |-> Null], r.ok)>>
       /\ clock' = clock + Tick
       /\ cache' = formatForPrompt(BusinessRule, cache, redis).store
       /\ lastTokenUsage' = r.usage
       /\ loc' = [loc EXCEPT !.sqlStart = clock]
       /\ IF ~r.ok
          THEN /\ gae' = gae
               /\ err' = r.err
               /\ pc' = "catch"
          ELSE IF IsSentinel(r.value)
          THEN /\ gae' = [gae EXCEPT !.sql = r.value, !.returned = ReturnOf(r.value, <<>>, 0)]
               /\ err' = err
               /\ pc' = "resume"
          ELSE /\ gae' = [gae EXCEPT !.sql = r.value, !.timeStart = clock']
               /\ err' = err
               /\ pc' = "exec1"
    /\ UNCHANGED <<chatHistory, logs, regVars, concVars, unitVars>>

\* generateAndExecute: the first execution
ExecuteQuery(answer) ==
    /\ pc = "exec1"
    /\ LET r == executeQuery(gae.sql, answer) IN
       /\ trace' = Append(trace, Call("executeQuery", r.query, r.ok))
       /\ clock' = clock + Tick
       /\ IF r.ok
          THEN /\ gae' = [gae EXCEPT !.rows = r.value,
                                     !.executionTime = clock' - gae.timeStart,
                                     !.returned = ReturnOf(gae.sql, r.value,
                                                           clock' - gae.timeStart)]
               /\ pc' = "resume"
          ELSE /\ gae' = [gae EXCEPT !.lastError = r.err]
               /\ pc' = AfterExecutionFailure(1)
    /\ UNCHANGED <<chatHistory, loc, err, logs, cache, lastTokenUsage, regVars, concVars, unitVars>>

\* generateAndExecute: the regeneration in the catch block
RegenerateSQL(redis, ai) ==
    /\ pc = "gen2"
    /\ LET r == generateSQLQuery(ai, "generateSQLQuery", lastTokenUsage) IN
       /\ trace' = Append(trace, Call("generateSQLQuery",
                                      [last |-> Some(gae.sql),
                                       error |-> Some(gae.lastError.msg)], r.ok))
       /\ clock' = clock + Tick
       /\ cache' = formatForPrompt(BusinessRule, cache, redis).store
       /\ lastTokenUsage' = r.usage
       /\ IF ~r.ok
          THEN /\ gae' = gae
               /\ err' = r.err
               /\ pc' = "catch"
          ELSE /\ gae' = [gae EXCEPT !.sqlNew = Some(r.value)]
               /\ err' = err
               /\ pc' = "exec2"
    /\ UNCHANGED <<chatHistory, loc, logs, regVars, concVars, unitVars>>

\* generateAndExecute: the execution of the regenerated statement
ExecuteRegenerated(answer) ==
    /\ pc = "exec2"
    /\ LET r == executeQuery(ValueOf(gae.sqlNew), answer) IN
       /\ trace' = Append(trace, Call("executeQuery", r.query, r.ok))
       /\ clock' = clock + Tick
       /\ IF r.ok
          THEN /\ gae' = [gae EXCEPT !.rows = r.value,
                                     !.executionTime = clock' - gae.timeStart,
                                     !.returned = ReturnOf(SqlReturnedAfterRetry(gae), r.value,
                                                           clock' - gae.timeStart)]
               /\ err' = err
               /\ pc' = "resume"
          ELSE /\ gae' = gae
               /\ err' = r.err
               /\ pc' = AfterExecutionFailure(2)
    /\ UNCHANGED <<chatHistory, loc, logs, cache, lastTokenUsage, regVars, concVars, unitVars>>

NoRelevantDataMessage == <<"I couldn't find relevant data in the table for your query.">>
NoResultsMessage == <<"Your query executed successfully, but no results were found.">>

\* askStream after generateAndExecute returned, up to its next await
ResumeAfterGenerateAndExecute ==
    /\ pc = "resume"
    /\ LET result == ValueOf(gae.returned)
           got == [loc EXCEPT !.queryExecutionTime = result.executionTime,
                              !.sqlGenerationTime = clock - loc.sqlStart,
                              !.generatedSql = result.sql,
                              !.rowCount = Len(result.rows),
                              !.sql = result.sql,
                              !.rows = result.rows]
       IN IF result.sql = NO_RELEVANT_DATA
          THEN /\ loc' = [got EXCEPT !.status = "no_data"]
               /\ trace' = trace \o <<Ev("content", NoRelevantDataMessage),
                                      Ev("done", <<"Done">>)>>
               /\ pc' = "logNoData"
          ELSE IF Len(result.rows) = 0
          THEN /\ loc' = [got EXCEPT !.status = "no_data"]
               /\ trace' = trace \o <<Ev("status", <<"Executing SQL query...">>),
                                      Ev("content", NoResultsMessage),
                                      Ev("done", <<"Done">>)>>
               /\ pc' = "logZeroRows"
          ELSE /\ loc' = got
               /\ trace' = trace \o <<Ev("status", <<"Executing SQL query...">>),
                                      Ev("status", <<"Formulating response...">>)>>
               /\ pc' = "respondRows"
    /\ UNCHANGED <<chatHistory, clock, gae, err, logs, cache, lastTokenUsage, regVars, concVars, unitVars>>

\* a metadata event that reports no rows
MetadataWithoutCount(sql, rows) ==
    [k |-> "event", type |-> "metadata",
     content |-> [sql |-> sql, rowCount |-> 0, ragSkipped |-> FALSE]]

\* the metadata event of the rows path
MetadataOf(sql, rows) ==
    [k |-> "event", type |-> "metadata",
     content |-> [sql |-> sql, rowCount |-> Len(rows), ragSkipped |-> FALSE]]

\* step 3: the answer is streamed from the rows
RespondFromRows(stream) ==
    /\ pc = "respondRows"
    /\ clock' = clock + Tick
    /\ loc' = [loc EXCEPT !.responseGenerationTime = clock' - clock,
                          !.tokenUsage = UsageAfterStream(lastTokenUsage)]
    /\ trace' = trace \o <<Call("generateResponseStream", loc.rows, ~stream.fails)>>
                      \o ContentEvents(generateResponseStream(stream))
                      \o <<MetadataOf(loc.sql, loc.rows), Ev("done", <<"Done">>)>>
    /\ lastTokenUsage' = UsageAfterStream(lastTokenUsage)
    /\ pc' = "logSuccess"
    /\ UNCHANGED <<chatHistory, gae, err, logs, cache, regVars, concVars, unitVars>>

-----------------------------------------------------------------------------
(* services/sql-assistant-logging.service.ts and askStream's log entries *)

\* a LogEntry with every optional field left out
BlankEntry ==
    [generatedSql |-> Null, executionTimeMs |-> Null, contextEvaluationTimeMs |-> Null,
     schemaFetchTimeMs |-> Null, sqlGenerationTimeMs |-> Null, queryExecutionTimeMs |-> Null,
     responseGenerationTimeMs |-> Null, rowCount |-> Null, tokenUsage |-> Null,
     status |-> "success", errorMessage |-> Null, ragSkipped |-> Null,
     contextDecision |-> Null]

\* the entry askStream builds at each of its five createLog calls from its
\* locals l, the time now and the error e it caught
LogEntry(at, l, now, e) ==
    CASE at = "logSufficient" ->
            [BlankEntry EXCEPT !.generatedSql = Some(<<"SKIPPED - Context sufficient">>),
                               !.executionTimeMs = Some(now),
                               !.contextEvaluationTimeMs = Some(l.contextEvaluationTime),
                               !.responseGenerationTimeMs = Some(l.responseGenerationTime),
                               !.tokenUsage = l.tokenUsage,
                               !.status = "success",
                               !.ragSkipped = Some(l.ragSkipped),
                               !.contextDecision = Some(l.contextDecision)]
      [] at = "logNoData" ->
            [BlankEntry EXCEPT !.generatedSql = Some(l.sql),
                               !.executionTimeMs = Some(now),
                               !.contextEvaluationTimeMs = Some(l.contextEvaluationTime),
                               !.schemaFetchTimeMs = Some(l.schemaFetchTime),
                               !.sqlGenerationTimeMs = Some(l.sqlGenerationTime),
                               !.status = l.status,
                               !.ragSkipped = Some(l.ragSkipped),
                               !.contextDecision = Some(l.contextDecision)]
      [] at = "logZeroRows" ->
            [BlankEntry EXCEPT !.generatedSql = Some(l.sql),
                               !.executionTimeMs = Some(now),
                               !.queryExecutionTimeMs = Some(l.queryExecutionTime),
                               !.contextEvaluationTimeMs = Some(l.contextEvaluationTime),
                               !.schemaFetchTimeMs = Some(l.schemaFetchTime),
                               !.sqlGenerationTimeMs = Some(l.sqlGenerationTime),
                               !.rowCount = Some(0),
                               !.status = l.status,
                               !.ragSkipped = Some(l.ragSkipped),
                               !.contextDecision = Some(l.contextDecision)]
      [] at = "logSuccess" ->
            [BlankEntry EXCEPT !.generatedSql = Some(l.sql),
                               !.executionTimeMs = Some(now),
                               !.contextEvaluationTimeMs = Some(l.contextEvaluationTime),
                               !.schemaFetchTimeMs = Some(l.schemaFetchTime),
                               !.queryExecutionTimeMs = Some(l.queryExecutionTime),
                               !.sqlGenerationTimeMs = Some(l.sqlGenerationTime),
                               !.responseGenerationTimeMs = Some(l.responseGenerationTime),
                               !.rowCount = Some(Len(l.rows)),
                               !.tokenUsage = l.tokenUsage,
                               !.status = "success",
                               !.ragSkipped = Some(l.ragSkipped),
                               !.contextDecision = Some(l.contextDecision)]
      [] at = "catch" ->
            [BlankEntry EXCEPT !.generatedSql = Some(l.generatedSql),
                               !.executionTimeMs = Some(now),
                               !.schemaFetchTimeMs = Some(l.schemaFetchTime),
                               !.sqlGenerationTimeMs = Some(l.sqlGenerationTime),
                               !.rowCount = Some(l.rowCount),
                               !.status = "error",
                               !.errorMessage = Some(e.msg)]

\* entries that all carry the status a LogEntry has by default
EntryAtAlwaysSuccess(at) == [BlankEntry EXCEPT !.executionTimeMs = Some(clock)]

\* the entry of the run that is alone on its instance
EntryAt(at) == LogEntry(at, loc, clock, err)

\* the columns createLog writes: it passes on neither the context evaluation
\* time nor the two context-skip fields
InsertedRow(entry) ==
    [entry EXCEPT !.contextEvaluationTimeMs = Null, !.ragSkipped = Null,
                  !.contextDecision = Null]

\* createLog: the table after the insert; when the insert fails the table is as
\* before and the failure is rethrown
createLog(table, entry, sinkUp) ==
    IF sinkUp
    THEN [ok |-> TRUE, table |-> Append(table, InsertedRow(entry)), err |-> NoErr]
    ELSE [ok |-> FALSE, table |-> table, err |-> DriverError("insert failed")]

LogPoints == {"logSufficient", "logNoData", "logZeroRows", "logSuccess"}

\* the createLog call that ends each path of the try block
LogRun(sinkUp) ==
    /\ pc \in LogPoints
    /\ LET r == createLog(logs, EntryAt(pc), sinkUp) IN
       /\ trace' = Append(trace, Call("createLog", EntryAt(pc).status, r.ok))
       /\ clock' = clock + Tick
       /\ logs' = r.table
       /\ err' = r.err
       /\ pc' = IF r.ok THEN "done" ELSE "catch"
    /\ UNCHANGED <<chatHistory, loc, gae, cache, lastTokenUsage, regVars, concVars, unitVars>>

TypedErrors == {"DatabaseConnectionError", "SchemaRetrievalError", "QueryExecutionError"}

\* the text of the error event
ErrorContent(e) ==
    IF e.type \in TypedErrors THEN <<"Error: ">> \o e.msg
    ELSE <<"An unexpected error occurred: ">> \o e.msg

\* askStream's catch block: the error event, then the error log entry; a
\* failure of that createLog leaves the generator as an exception
HandleError(sinkUp) ==
    /\ pc = "catch"
    /\ LET r == createLog(logs, EntryAt("catch"), sinkUp) IN
       /\ loc' = [loc EXCEPT !.status = "error", !.errorMessage = Some(err.msg)]
       /\ trace' = trace \o <<Ev("error", ErrorContent(err)), Call("createLog", "error", r.ok)>>
       /\ clock' = clock + Tick
       /\ logs' = r.table
       /\ err' = IF r.ok THEN err ELSE r.err
       /\ pc' = IF r.ok THEN "done" ELSE "threw"
    /\ UNCHANGED <<chatHistory, gae, cache, lastTokenUsage, regVars, concVars, unitVars>>

-----------------------------------------------------------------------------
(* The environment of a run *)

\* an entry of the cache reaches its TTL
CacheExpire(key) ==
    /\ cache[key] /= Null
    /\ cache' = [cache EXCEPT ![key] = Null]
    /\ UNCHANGED <<pc, chatHistory, trace, clock, loc, gae, err, logs, lastTokenUsage,
                   regVars, concVars, unitVars>>

-----------------------------------------------------------------------------
(* controllers/sql-assistant.controller.ts: the instance registry *)

\* the models a request may name; "" is a request that names none
Models == {"", "gemini-2.5-pro"}

\* the one project of the model
Project == 1

\* instanceKey: `${projectId}_${model}`, or `${projectId}` without a model
InstanceKey(projectId, model) == IF model /= "" THEN <<projectId, "_", model>> ELSE <<projectId>>

\* key.startsWith(`${project.id}_`) || key === `${project.id}`
KeyOfProject(key, projectId) ==
    \/ Len(key) >= 2 /\ key[1] = projectId /\ key[2] = "_"
    \/ key = <<projectId>>

\* Map.has, Map.get, Map.set, Map.delete on the insertion-ordered registry
MapHas(m, key) == \E i \in 1..Len(m) : m[i][1] = key
MapGet(m, key) == m[CHOOSE i \in 1..Len(m) : m[i][1] = key][2]
MapSet(m, key, value) ==
    IF MapHas(m, key)
    THEN [i \in 1..Len(m) |-> IF m[i][1] = key THEN <<key, value>> ELSE m[i]]
    ELSE Append(m, <<key, value>>)
MapDeleteAll(m, keys) ==
    LET keep(e) == \A j \in 1..Len(keys) : keys[j] /= e[1] IN SelectSeq(m, keep)

IdleRequest == [pc |-> "idle", key |-> <<>>, inst |-> 0]

\* getAssistantInstance up to its first await: a registered instance is returned
GetAssistantInstance(r, model) ==
    /\ req[r].pc = "idle"
    /\ LET key == InstanceKey(Project, model) IN
       req' = [req EXCEPT ![r] =
                  IF MapHas(registry, key)
                  THEN [pc |-> "got", key |-> key, inst |-> MapGet(registry, key)]
                  ELSE [pc |-> "getProject", key |-> key, inst |-> 0]]
    /\ UNCHANGED <<registry, instances, disc, runVars, concVars, unitVars>>

\* getProjectById answers: a missing or unconfigured project ends the request,
\* otherwise the instance is constructed
LoadProject(r, usable) ==
    /\ req[r].pc = "getProject"
    /\ IF usable
       THEN /\ Len(instances) < MaxInstances
            /\ instances' = Append(instances, [key |-> req[r].key, state |-> "new"])
            /\ req' = [req EXCEPT ![r].pc = "connecting", ![r].inst = Len(instances) + 1]
       ELSE /\ instances' = instances
            /\ req' = [req EXCEPT ![r].pc = "failed"]
    /\ UNCHANGED <<registry, disc, runVars, concVars, unitVars>>

\* assistant.connect() answers: the connected instance is stored and returned
Connect(r, connected) ==
    /\ req[r].pc = "connecting"
    /\ IF connected
       THEN /\ instances' = [instances EXCEPT ![req[r].inst].state = "connected"]
            /\ registry' = MapSet(registry, req[r].key, req[r].inst)
            /\ req' = [req EXCEPT ![r].pc = "got"]
       ELSE /\ instances' = [instances EXCEPT ![req[r].inst].state = "failed"]
            /\ registry' = registry
            /\ req' = [req EXCEPT ![r].pc = "failed"]
    /\ UNCHANGED <<disc, runVars, concVars, unitVars>>

\* the request that called getAssistantInstance ends
FinishRequest(r) ==
    /\ req[r].pc \in {"got", "failed"}
    /\ req' = [req EXCEPT ![r] = IdleRequest]
    /\ UNCHANGED <<registry, instances, disc, runVars, concVars, unitVars>>

IdleDisconnect == [pc |-> "idle", pos |-> 1, key |-> <<>>, inst |-> 0, keysToDelete |-> <<>>]

\* disconnectProject is called and waits for getProjectBySlug
DisconnectProject ==
    /\ disc.pc = "idle"
    /\ disc' = [IdleDisconnect EXCEPT !.pc = "iterating"]
    /\ UNCHANGED <<registry, instances, req, runVars, concVars, unitVars>>

\* the entries of the registry at or after position pos that belong to the project
EntriesFrom(pos) == {i \in pos..Len(registry) : KeyOfProject(registry[i][1], Project)}

\* the loop over assistantInstances.entries() runs on from position pos: at the
\* next entry of the project it takes [key, assistant] from the iterator, calls
\* assistant.disconnect() and waits; past the last entry the collected keys are
\* deleted and the handler answers
DisconnectLoop(pos, keysToDelete) ==
    IF EntriesFrom(pos) /= {}
    THEN LET i == Min(EntriesFrom(pos)) IN
         /\ disc' = [pc |-> "ending", pos |-> i, key |-> registry[i][1],
                     inst |-> registry[i][2], keysToDelete |-> keysToDelete]
         /\ registry' = registry
    ELSE /\ disc' = IdleDisconnect
         /\ registry' = MapDeleteAll(registry, keysToDelete)

\* what getProjectBySlug does: it finds the project, finds none, or rejects
ProjectLookups == {"found", "missing", "failed"}

\* getProjectBySlug answers: with the project the loop starts; without one the
\* handler answers 404, and when the lookup rejects its catch answers 500, the
\* registry untouched and no disconnect() called
DisconnectVisit(lookup) ==
    /\ disc.pc = "iterating"
    /\ IF lookup = "found"
       THEN DisconnectLoop(1, <<>>)
       ELSE disc' = IdleDisconnect /\ registry' = registry
    /\ UNCHANGED <<instances, req, runVars, concVars, unitVars>>

\* what pool.end() of an instance does: it closes the pool, or it rejects with
\* the pool closed or still open
EndOutcomes == {"closed", "failedClosed", "failedOpen"}

\* DatabaseService.disconnect: without a pool nothing is done; the pool is
\* forgotten ("disconnected") only when end() resolves, and a rejected end()
\* leaves the instance holding its pool, open as before or closed ("ended")
disconnect(state, end) ==
    IF state = "disconnected" \/ end = "closed" THEN "disconnected"
    ELSE IF end = "failedClosed" THEN "ended"
    ELSE state

\* the wait for assistant.disconnect() ends, for the assistant the iterator
\* handed out: resolved, its key is collected and the loop runs on; rejected,
\* the handler leaves the loop through its catch and answers 500, and the keys
\* collected so far are never deleted
DisconnectEnd(end) ==
    /\ disc.pc = "ending"
    /\ instances[disc.inst].state = "disconnected" => end = "closed"
    /\ instances' = [instances EXCEPT ![disc.inst].state = disconnect(@, end)]
    /\ IF end = "closed"
       THEN DisconnectLoop(disc.pos + 1, Append(disc.keysToDelete, disc.key))
       ELSE disc' = IdleDisconnect /\ registry' = registry
    /\ UNCHANGED <<req, runVars, concVars, unitVars>>

-----------------------------------------------------------------------------
(* askStream runs interleaved on one assistant instance: they share the        *)
(* gateway's lastTokenUsage field, the cache and the log table, and each step  *)
(* below runs from one await of askStream to the next                          *)

soloVars == <<pc, chatHistory, trace, clock, loc, gae, err>>

ConcHistories == {<<>>, <<"user: hi">>}
ConcSqlResponses == {<<"SELECT", " ", "1">>, <<"NO_RELEVANT_DATA">>}

\* in these runs the cache backend is up and the database answers or is lost
ConcRedisStates == {"up"}
ConcDbOutcomes == {"ok", "tablesFail"}

IdleRun ==
    [pc |-> "idle", chatHistory |-> <<>>, fetched |-> Null, sql |-> <<>>, sqlNew |-> Null,
     rows |-> <<>>, generatedSql |-> <<>>, rowCount |-> 0, tokenUsage |-> Null,
     sawCall |-> Null, status |-> "success", ragSkipped |-> FALSE, contextDecision |-> "",
     err |-> NoErr]

\* a run whose generator has ended: of its locals only what it read from the
\* gateway is kept
EndedRun(run, how) ==
    [IdleRun EXCEPT !.pc = how, !.tokenUsage = run.tokenUsage, !.sawCall = run.sawCall]

\* the gateway call a run makes: the usage metadata it returns is its own
GatewayCall(r, name) == [run |-> r, name |-> name]

\* a run is called: its chatId is its number
RunAskStream(r, history) ==
    /\ runs[r].pc = "idle"
    /\ runs' = [runs EXCEPT ![r].chatHistory = history,
                            ![r].pc = IF HistoryHasContent(history) THEN "evaluate"
                                      ELSE "schema"]
    /\ UNCHANGED <<soloVars, logs, cache, lastTokenUsage, latestCall, regVars, unitVars>>

\* step 0; the evaluator calls its own gateway instance, not the shared one
RunEvaluateContext(r, ai) ==
    /\ runs[r].pc = "evaluate"
    /\ LET evaluation == evaluateContext(runs[r].chatHistory, ai) IN
       runs' = [runs EXCEPT ![r].contextDecision = evaluation.decision,
                            ![r].ragSkipped = (evaluation.decision = "SUFFICIENT"),
                            ![r].pc = IF evaluation.decision = "SUFFICIENT"
                                      THEN "respondHistory" ELSE "schema"]
    /\ UNCHANGED <<soloVars, logs, cache, lastTokenUsage, latestCall, regVars, unitVars>>

\* what getTableSchemaAsCSV makes of an error of getOrSetCached
SchemaRetrievalError(e) == Wrap("SchemaRetrievalError", "Failed to retrieve schema: ", e)

\* step 1, getOrSetCached up to its first await: the cache is read
RunSchemaGet(r, redis) ==
    /\ runs[r].pc = "schema"
    /\ LET got == getCached(cache, generateSchemaKey(ProjectId, ProjectTables), GetUp(redis)) IN
       runs' = [runs EXCEPT ![r] =
             IF ~got.ok THEN [@ EXCEPT !.pc = "catch", !.err = SchemaRetrievalError(got.err)]
             ELSE IF got.value /= Null THEN [@ EXCEPT !.pc = "rule1"]
             ELSE [@ EXCEPT !.pc = "schemaFetch"]]
    /\ UNCHANGED <<soloVars, logs, cache, lastTokenUsage, latestCall, regVars, unitVars>>

\* step 1, the factory after a miss: the schema is fetched from the database
RunSchemaFetch(r, db) ==
    /\ runs[r].pc = "schemaFetch"
    /\ LET got == fetchTableSchema(ProjectTables, db) IN
       runs' = [runs EXCEPT ![r] =
             IF ~got.ok THEN [@ EXCEPT !.pc = "catch", !.err = SchemaRetrievalError(got.err)]
             ELSE [@ EXCEPT !.pc = "schemaSet", !.fetched = Some(got.value)]]
    /\ UNCHANGED <<soloVars, logs, cache, lastTokenUsage, latestCall, regVars, unitVars>>

\* step 1, after the factory: the fetched schema is stored
RunSchemaSet(r, redis) ==
    /\ runs[r].pc = "schemaSet"
    /\ LET put == setCached(cache, generateSchemaKey(ProjectId, ProjectTables),
                            ValueOf(runs[r].fetched), SetUp(redis))
       IN /\ cache' = put.store
          /\ runs' = [runs EXCEPT ![r] =
                IF ~put.ok THEN [@ EXCEPT !.pc = "catch", !.err = SchemaRetrievalError(put.err)]
                ELSE [@ EXCEPT !.pc = "rule1"]]
    /\ UNCHANGED <<soloVars, logs, lastTokenUsage, latestCall, regVars, unitVars>>

\* generateSQLQuery up to its first await, formatForPrompt -> getBusinessRule ->
\* getOrSetCached: the rule's cache entry is read; without a configured rule the
\* cache is not asked, and a failure of the cache is caught by getBusinessRule
RunRuleGet(r, redis) ==
    /\ runs[r].pc \in {"rule1", "rule2"}
    /\ LET got == getCached(cache, generateBusinessRuleKey(ProjectId), GetUp(redis))
           attempt == IF runs[r].pc = "rule1" THEN 1 ELSE 2
       IN runs' = [runs EXCEPT ![r].pc =
             IF BusinessRule /= <<>> /\ got.ok /\ got.value = Null
             THEN (IF attempt = 1 THEN "ruleSet1" ELSE "ruleSet2")
             ELSE (IF attempt = 1 THEN "gen1" ELSE "gen2")]
    /\ UNCHANGED <<soloVars, logs, cache, lastTokenUsage, latestCall, regVars, unitVars>>

\* getOrSetCached after the miss: the configured rule is stored; a failure is
\* caught by getBusinessRule, and the prompt is built
RunRuleSet(r, redis) ==
    /\ runs[r].pc \in {"ruleSet1", "ruleSet2"}
    /\ cache' = setCached(cache, generateBusinessRuleKey(ProjectId), BusinessRule,
                          SetUp(redis)).store
    /\ runs' = [runs EXCEPT ![r].pc = IF runs[r].pc = "ruleSet1" THEN "gen1" ELSE "gen2"]
    /\ UNCHANGED <<soloVars, logs, lastTokenUsage, latestCall, regVars, unitVars>>

\* generateAndExecute: the provider answers a generation, the first or the one
\* of the retry
RunGenerateSQL(r, ai) ==
    /\ runs[r].pc \in {"gen1", "gen2"}
    /\ LET call == GatewayCall(r, "generateSQLQuery")
           got == generateSQLQuery(ai, call, lastTokenUsage)
       IN /\ lastTokenUsage' = got.usage
          /\ latestCall' = IF ai.ok THEN Some(call) ELSE latestCall
          /\ runs' = [runs EXCEPT ![r] =
                IF ~got.ok THEN [@ EXCEPT !.pc = "catch", !.err = got.err]
                ELSE IF runs[r].pc = "gen2"
                THEN [@ EXCEPT !.pc = "exec2", !.sqlNew = Some(got.value)]
                ELSE IF IsSentinel(got.value)
                THEN [@ EXCEPT !.pc = "logNoData", !.sql = got.value,
                               !.generatedSql = got.value, !.rowCount = 0,
                               !.status = "no_data"]
                ELSE [@ EXCEPT !.pc = "exec1", !.sql = got.value]]
    /\ UNCHANGED <<soloVars, logs, cache, regVars, unitVars>>

\* generateAndExecute: an execution, the first or the one of the retry, and
\* what askStream does with the rows
RunExecuteQuery(r, answer) ==
    /\ runs[r].pc \in {"exec1", "exec2"}
    /\ LET attempt == IF runs[r].pc = "exec1" THEN 1 ELSE 2
           got == executeQuery(IF attempt = 1 THEN runs[r].sql ELSE ValueOf(runs[r].sqlNew),
                               answer)
       IN runs' = [runs EXCEPT ![r] =
             IF ~got.ok /\ AfterExecutionFailure(attempt) = "gen2" THEN [@ EXCEPT !.pc = "rule2"]
             ELSE IF ~got.ok THEN [@ EXCEPT !.pc = "catch", !.err = got.err]
             ELSE IF Len(got.value) = 0
             THEN [@ EXCEPT !.pc = "logZeroRows", !.rows = got.value,
                            !.generatedSql = runs[r].sql, !.rowCount = Len(got.value),
                            !.status = "no_data"]
             ELSE [@ EXCEPT !.pc = "respondRows", !.rows = got.value,
                            !.generatedSql = runs[r].sql, !.rowCount = Len(got.value)]]
    /\ UNCHANGED <<soloVars, logs, cache, lastTokenUsage, latestCall, regVars, unitVars>>

\* the response stream is opened, from the rows or from the history
RunRespond(r) ==
    /\ runs[r].pc \in {"respondHistory", "respondRows"}
    /\ runs' = [runs EXCEPT ![r].pc = "streaming"]
    /\ UNCHANGED <<soloVars, logs, cache, lastTokenUsage, latestCall, regVars, unitVars>>

\* the stream ends and the run reads getLastTokenUsage()
RunReadTokenUsage(r) ==
    /\ runs[r].pc = "streaming"
    /\ lastTokenUsage' = UsageAfterStream(lastTokenUsage)
    /\ runs' = [runs EXCEPT ![r].pc = IF runs[r].ragSkipped THEN "logSufficient"
                                      ELSE "logSuccess",
                            ![r].tokenUsage = UsageAfterStream(lastTokenUsage),
                            ![r].sawCall = latestCall]
    /\ UNCHANGED <<soloVars, logs, cache, latestCall, regVars, unitVars>>

\* askStream's locals as a run holds them; in these runs Date.now() answers the
\* same millisecond throughout, so every measured time is the 0 it started as
RunLocals(run) ==
    [InitLoc EXCEPT !.sql = run.sql, !.rows = run.rows, !.generatedSql = run.generatedSql,
                    !.rowCount = run.rowCount, !.tokenUsage = run.tokenUsage,
                    !.status = run.status, !.ragSkipped = run.ragSkipped,
                    !.contextDecision = run.contextDecision]

\* the entry a run hands to createLog
RunEntry(r, at) == [chatId |-> r] @@ LogEntry(at, RunLocals(runs[r]), 0, runs[r].err)

\* the createLog call after done
RunLog(r, sinkUp) ==
    /\ runs[r].pc \in LogPoints
    /\ LET got == createLog(logs, RunEntry(r, runs[r].pc), sinkUp)
       IN /\ logs' = got.table
          /\ runs' = [runs EXCEPT ![r] = IF got.ok THEN EndedRun(@, "done")
                                           ELSE [@ EXCEPT !.pc = "catch", !.err = got.err]]
    /\ UNCHANGED <<soloVars, cache, lastTokenUsage, latestCall, regVars, unitVars>>

\* the catch block: the error entry carries no token usage
RunHandleError(r, sinkUp) ==
    /\ runs[r].pc = "catch"
    /\ LET got == createLog(logs, RunEntry(r, "catch"), sinkUp)
       IN /\ logs' = got.table
          /\ runs' = [runs EXCEPT ![r] = EndedRun(@, IF got.ok THEN "done" ELSE "threw")]
    /\ UNCHANGED <<soloVars, cache, lastTokenUsage, latestCall, regVars, unitVars>>

-----------------------------------------------------------------------------
(* Service methods called directly, outside a run *)

\* chat histories: blank ones, and ones with messages
HistoryTokens == {WS, "user: hi", "assistant: 42"}
UnitHistories == SeqsUpTo(HistoryTokens, MaxHistory)

\* what the light model may answer, parseable or not
UnitEvalResponses ==
    EvalResponses \cup
    { <<"DECISION:", " ", " ", "need_more_data">>,
      <<"REASONING:", " ", "r">>,
      <<"DECISION:", " ", "MAYBE">>,
      <<"I think ", "DECISION:", "SUFFICIENT">>,
      <<>> }

NoCall == [op |-> "none", args |-> <<>>, result |-> <<>>]

\* the rules a project may be configured with: none, a blank one, a rule
BusinessRules == {<<>>, <<WS>>, <<"rule">>}

\* businessRuleService.formatForPrompt() of an instance configured with a rule;
\* before is the rule's cache entry when the call starts
CallFormatForPrompt(businessRule, redis) ==
    LET r == formatForPrompt(businessRule, cache, redis) IN
    /\ unit' = [op |-> "formatForPrompt",
                args |-> [businessRule |-> businessRule, redis |-> redis,
                          before |-> cache[generateBusinessRuleKey(ProjectId)]],
                result |-> [ok |-> r.ok, value |-> r.value, cacheUsed |-> r.cacheUsed,
                            factoryRan |-> r.factoryRan]]
    /\ cache' = r.store
    /\ UNCHANGED <<soloVars, logs, lastTokenUsage, regVars, concVars>>

\* what a call of a cached read hands back, as recorded in unit
CachedCall(op, args, key, r) ==
    [op |-> op, args |-> args @@ [before |-> cache[key]],
     result |-> [ok |-> r.ok, value |-> r.value, factoryRan |-> r.factoryRan]]

\* schemaService.getTableSchemaAsCSV(tableNames)
CallGetSchema(tableNames, redis, db) ==
    LET r == getTableSchemaAsCSV(cache, tableNames, GetUp(redis), SetUp(redis), db) IN
    /\ unit' = CachedCall("getTableSchemaAsCSV",
                          [tableNames |-> tableNames, redis |-> redis, db |-> db],
                          generateSchemaKey(ProjectId, tableNames), r)
    /\ cache' = r.store
    /\ UNCHANGED <<soloVars, logs, lastTokenUsage, regVars, concVars>>

\* schemaService.getAvailableTables()
CallGetAvailableTables(redis, db) ==
    LET r == getAvailableTables(cache, GetUp(redis), SetUp(redis), db) IN
    /\ unit' = CachedCall("getAvailableTables", [redis |-> redis, db |-> db],
                          generateTablesKey(ProjectId), r)
    /\ cache' = r.store
    /\ UNCHANGED <<soloVars, logs, lastTokenUsage, regVars, concVars>>

\* deleteCached(key)
CallDeleteCached(key, redis) ==
    LET r == deleteCached(cache, key, SetUp(redis)) IN
    /\ unit' = [op |-> "deleteCached", args |-> [key |-> key, redis |-> redis],
                result |-> [ok |-> r.ok, err |-> r.err]]
    /\ cache' = r.store
    /\ UNCHANGED <<soloVars, logs, lastTokenUsage, regVars, concVars>>

\* deletePattern(pattern)
CallDeletePattern(prefix, redis) ==
    LET r == deletePattern(cache, prefix, GetUp(redis), SetUp(redis)) IN
    /\ unit' = [op |-> "deletePattern", args |-> [pattern |-> prefix \o <<"*">>, redis |-> redis],
                result |-> [ok |-> r.ok, err |-> r.err]]
    /\ cache' = r.store
    /\ UNCHANGED <<soloVars, logs, lastTokenUsage, regVars, concVars>>

\* ResponseService.generateResponseFromHistory: the model's text, or its
\* exception rethrown
generateResponseFromHistory(ai, usageBefore) ==
    generateContent(ai, "generateResponseFromHistory", usageBefore)

\* responseService.generateResponseFromHistory(query, chatHistory)
CallGenerateResponseFromHistory(history, ai) ==
    LET r == generateResponseFromHistory(ai, lastTokenUsage) IN
    /\ unit' = [op |-> "generateResponseFromHistory",
                args |-> [history |-> history, ai |-> ai],
                result |-> [ok |-> r.ok, value |-> r.value, err |-> r.err]]
    /\ lastTokenUsage' = r.usage
    /\ UNCHANGED <<soloVars, logs, cache, regVars, concVars>>

\* contextEvaluationService.evaluateContext(query, chatHistory)
CallEvaluateContext(history, ai) ==
    /\ unit' = [op |-> "evaluateContext", args |-> [history |-> history, ai |-> ai],
                result |-> evaluateContext(history, ai)]
    /\ UNCHANGED <<runVars, regVars, concVars>>

\* ResponseService.generateResponse: the model's text, or its exception rethrown
generateResponse(ai, usageBefore) == generateContent(ai, "generateResponse", usageBefore)

\* what ask returns when nothing was caught
askReturns(text) == [threw |-> FALSE, value |-> text, caught |-> NoErr]

\* a catch block of ask that lets the errors it does not know propagate
askCatchRethrowsUnexpected(e) ==
    IF e.type \in TypedErrors
    THEN [threw |-> FALSE, value |-> <<"Error: ">> \o e.msg, caught |-> e]
    ELSE [threw |-> TRUE, value |-> <<>>, caught |-> e]

\* the catch block of ask: every error becomes the returned text
askCatch(e) ==
    IF e.type \in TypedErrors
    THEN [threw |-> FALSE, value |-> <<"Error: ">> \o e.msg, caught |-> e]
    ELSE [threw |-> FALSE, value |-> <<"An unexpected error occurred: ">> \o e.msg,
          caught |-> e]

\* a call of ask in progress: its argument, its position, the collaborators it
\* has called, what generateAndExecute holds, and what the call handed back
AskRun(history) ==
    [op |-> "ask", chatHistory |-> history, pc |-> "schema", calls |-> <<>>, sql |-> <<>>,
     lastError |-> NoErr, sqlNew |-> Null, rows |-> <<>>, result |-> askReturns(<<>>)]

\* the run after one more collaborator was called
Called(run, name) == [run EXCEPT !.calls = Append(run.calls, name)]

\* what the model may answer to the response prompt
AskTextResponses == {<<"answer">>}

\* sqlAssistant.ask(query, chatHistory) is called
CallAsk(history) ==
    /\ unit.op = "none" \/ (unit.op = "ask" /\ unit.pc = "returned")
    /\ unit' = AskRun(history)
    /\ UNCHANGED <<runVars, regVars, concVars>>

\* ask, step 1: the schema
AskFetchSchema(redis, db) ==
    /\ unit.op = "ask" /\ unit.pc = "schema"
    /\ LET r == getTableSchemaAsCSV(cache, ProjectTables, GetUp(redis), SetUp(redis), db) IN
       /\ cache' = r.store
       /\ unit' = IF r.ok THEN [Called(unit, "getTableSchemaAsCSV") EXCEPT !.pc = "gen1"]
                  ELSE [Called(unit, "getTableSchemaAsCSV") EXCEPT !.pc = "returned", !.result = askCatch(r.err)]
    /\ UNCHANGED <<soloVars, logs, lastTokenUsage, regVars, concVars>>

\* ask, step 2, generateAndExecute: the first generation
AskGenerateSQL(redis, ai) ==
    /\ unit.op = "ask" /\ unit.pc = "gen1"
    /\ LET r == generateSQLQuery(ai, "generateSQLQuery", lastTokenUsage) IN
       /\ cache' = formatForPrompt(BusinessRule, cache, redis).store
       /\ lastTokenUsage' = r.usage
       /\ unit' = IF ~r.ok
                  THEN [Called(unit, "generateSQLQuery") EXCEPT !.pc = "returned", !.result = askCatch(r.err)]
                  ELSE IF IsSentinel(r.value)
                  THEN [Called(unit, "generateSQLQuery") EXCEPT !.pc = "returned", !.sql = r.value,
                                    !.result = askReturns(NoRelevantDataMessage)]
                  ELSE [Called(unit, "generateSQLQuery") EXCEPT !.pc = "exec1", !.sql = r.value]
    /\ UNCHANGED <<soloVars, logs, regVars, concVars>>

\* what ask does with the rows generateAndExecute returned
AskAfterRows(run, rows) ==
    IF Len(rows) = 0
    THEN [run EXCEPT !.pc = "returned", !.rows = rows, !.result = askReturns(NoResultsMessage)]
    ELSE [run EXCEPT !.pc = "respond", !.rows = rows]

\* generateAndExecute: the first execution
AskExecuteQuery(answer) ==
    /\ unit.op = "ask" /\ unit.pc = "exec1"
    /\ LET r == executeQuery(unit.sql, answer) IN
       unit' = IF r.ok THEN AskAfterRows(Called(unit, "executeQuery"), r.value)
               ELSE [Called(unit, "executeQuery") EXCEPT !.pc = "gen2", !.lastError = r.err]
    /\ UNCHANGED <<runVars, regVars, concVars>>

\* generateAndExecute: the regeneration in the catch block
AskRegenerateSQL(redis, ai) ==
    /\ unit.op = "ask" /\ unit.pc = "gen2"
    /\ LET r == generateSQLQuery(ai, "generateSQLQuery", lastTokenUsage) IN
       /\ cache' = formatForPrompt(BusinessRule, cache, redis).store
       /\ lastTokenUsage' = r.usage
       /\ unit' = IF ~r.ok
                  THEN [Called(unit, "generateSQLQuery") EXCEPT !.pc = "returned", !.result = askCatch(r.err)]
                  ELSE [Called(unit, "generateSQLQuery") EXCEPT !.pc = "exec2", !.sqlNew = Some(r.value)]
    /\ UNCHANGED <<soloVars, logs, regVars, concVars>>

\* generateAndExecute: the execution of the regenerated statement; ask tests
\* the statement generateAndExecute names in its result
AskExecuteRegenerated(answer) ==
    /\ unit.op = "ask" /\ unit.pc = "exec2"
    /\ LET r == executeQuery(ValueOf(unit.sqlNew), answer) IN
       unit' = IF ~r.ok
               THEN [Called(unit, "executeQuery") EXCEPT !.pc = "returned", !.result = askCatch(r.err)]
               ELSE IF SqlReturnedAfterRetry(unit) = NO_RELEVANT_DATA
               THEN [Called(unit, "executeQuery") EXCEPT !.pc = "returned", !.rows = r.value,
                                 !.result = askReturns(NoRelevantDataMessage)]
               ELSE AskAfterRows(Called(unit, "executeQuery"), r.value)
    /\ UNCHANGED <<runVars, regVars, concVars>>

\* ask, step 3: the answer
AskRespond(ai) ==
    /\ unit.op = "ask" /\ unit.pc = "respond"
    /\ LET r == generateResponse(ai, lastTokenUsage) IN
       /\ lastTokenUsage' = r.usage
       /\ unit' = IF r.ok THEN [Called(unit, "generateResponse") EXCEPT !.pc = "returned", !.result = askReturns(r.value)]
                  ELSE [Called(unit, "generateResponse") EXCEPT !.pc = "returned", !.result = askCatch(r.err)]
    /\ UNCHANGED <<soloVars, logs, cache, regVars, concVars>>

RunInit ==
    /\ pc = "idle"
    /\ chatHistory = <<>>
    /\ trace = <<>>
    /\ clock = 0
    /\ loc = InitLoc
    /\ gae = InitGae
    /\ err = NoErr
    /\ logs = <<>>
    /\ cache = [k \in CacheKeys |-> Null]
    /\ lastTokenUsage = Null

RegInit ==
    /\ registry = <<>>
    /\ instances = <<>>
    /\ req = [r \in 1..NumRequests |-> IdleRequest]
    /\ disc = IdleDisconnect

ConcInit ==
    /\ runs = [r \in 1..NumRuns |-> IdleRun]
    /\ latestCall = Null

UnitInit == unit = NoCall

Init == RunInit /\ RegInit /\ ConcInit /\ UnitInit

Next ==
    \/ \E h \in Histories : AskStream(h)
    \/ \E ai \in AiAnswers(EvalResponses) : EvaluateContext(ai)
    \/ \E stream \in GatewayStreams : RespondFromHistory(stream)
    \/ \E redis \in RedisStates, db \in RunDbOutcomes : FetchSchema(redis, db)
    \/ \E redis \in RedisStates, ai \in AiAnswers(SqlResponses) : GenerateSQL(redis, ai)
    \/ \E answer \in DbAnswers : ExecuteQuery(answer)
    \/ \E redis \in RedisStates, ai \in AiAnswers(SqlResponses) : RegenerateSQL(redis, ai)
    \/ \E answer \in DbAnswers : ExecuteRegenerated(answer)
    \/ ResumeAfterGenerateAndExecute
    \/ \E stream \in GatewayStreams : RespondFromRows(stream)
    \/ \E sinkUp \in BOOLEAN : LogRun(sinkUp)
    \/ \E sinkUp \in BOOLEAN : HandleError(sinkUp)
    \/ \E key \in CacheKeys : CacheExpire(key)

Spec == Init /\ [][Next]_vars

\* the requests and the disconnect handler, interleaved at their awaits
RegistryNext ==
    \/ \E r \in 1..NumRequests, model \in Models : GetAssistantInstance(r, model)
    \/ \E r \in 1..NumRequests, usable \in BOOLEAN : LoadProject(r, usable)
    \/ \E r \in 1..NumRequests, connected \in BOOLEAN : Connect(r, connected)
    \/ \E r \in 1..NumRequests : FinishRequest(r)
    \/ DisconnectProject
    \/ \E lookup \in ProjectLookups : DisconnectVisit(lookup)
    \/ \E end \in EndOutcomes : DisconnectEnd(end)

RegistrySpec == Init /\ [][RegistryNext]_vars

\* the runs on one instance, interleaved at their awaits
ConcurrentNext ==
    \/ \E r \in 1..NumRuns, history \in ConcHistories : RunAskStream(r, history)
    \/ \E r \in 1..NumRuns, ai \in AiAnswers(EvalResponses) : RunEvaluateContext(r, ai)
    \/ \E r \in 1..NumRuns, redis \in ConcRedisStates : RunSchemaGet(r, redis)
    \/ \E r \in 1..NumRuns, db \in ConcDbOutcomes : RunSchemaFetch(r, db)
    \/ \E r \in 1..NumRuns, redis \in ConcRedisStates : RunSchemaSet(r, redis)
    \/ \E r \in 1..NumRuns, redis \in ConcRedisStates : RunRuleGet(r, redis)
    \/ \E r \in 1..NumRuns, redis \in ConcRedisStates : RunRuleSet(r, redis)
    \/ \E r \in 1..NumRuns, ai \in AiAnswers(ConcSqlResponses) : RunGenerateSQL(r, ai)
    \/ \E r \in 1..NumRuns, answer \in DbAnswers : RunExecuteQuery(r, answer)
    \/ \E r \in 1..NumRuns : RunRespond(r)
    \/ \E r \in 1..NumRuns : RunReadTokenUsage(r)
    \/ \E r \in 1..NumRuns, sinkUp \in BOOLEAN : RunLog(r, sinkUp)
    \/ \E r \in 1..NumRuns, sinkUp \in BOOLEAN : RunHandleError(r, sinkUp)

ConcurrentSpec == Init /\ [][ConcurrentNext]_vars

\* direct calls of the service methods, on any arguments
UnitNext ==
    \/ \E history \in UnitHistories, ai \in AiAnswers(UnitEvalResponses) :
           CallEvaluateContext(history, ai)
    \/ \E history \in ConcHistories, ai \in AiAnswers(AskTextResponses) :
           CallGenerateResponseFromHistory(history, ai)

UnitSpec == Init /\ [][UnitNext]_vars

\* calls of ask, one after the other, on one instance
AskNext ==
    \/ \E history \in ConcHistories : CallAsk(history)
    \/ \E redis \in RedisStates, db \in RunDbOutcomes : AskFetchSchema(redis, db)
    \/ \E redis \in RedisStates, ai \in AiAnswers(SqlResponses) : AskGenerateSQL(redis, ai)
    \/ \E answer \in DbAnswers : AskExecuteQuery(answer)
    \/ \E redis \in RedisStates, ai \in AiAnswers(SqlResponses) :
           AskRegenerateSQL(redis, ai)
    \/ \E answer \in DbAnswers : AskExecuteRegenerated(answer)
    \/ \E ai \in AiAnswers(AskTextResponses) : AskRespond(ai)

AskSpec == Init /\ [][AskNext]_vars

\* direct calls of the reads that go through the cache, one after the other
CacheNext ==
    \/ \E businessRule \in BusinessRules, redis \in RedisStates :
           CallFormatForPrompt(businessRule, redis)
    \/ \E tableNames \in DirectRequests, redis \in RedisStates, db \in DbOutcomes :
           CallGetSchema(tableNames, redis, db)
    \/ \E redis \in RedisStates, db \in DbOutcomes : CallGetAvailableTables(redis, db)
    \/ \E key \in CacheKeys, redis \in RedisStates : CallDeleteCached(key, redis)
    \/ \E prefix \in Patterns, redis \in RedisStates : CallDeletePattern(prefix, redis)

CacheSpec == Init /\ [][CacheNext]_vars

-----------------------------------------------------------------------------
(* Reading the trace of a run *)

IsEvent(e) == e.k = "event"
IsCall(e, name) == e.k = "call" /\ e.type = name

\* the stream events of the run, in the order they were yielded
Events == SelectSeq(trace, IsEvent)

\* the positions in the trace of the calls of a collaborator, and the calls
CallPositions(name) == {i \in 1..Len(trace) : IsCall(trace[i], name)}
CallsOf(name) == LET is(e) == IsCall(e, name) IN SelectSeq(trace, is)

IsTerminal(e) == IsEvent(e) /\ e.type \in {"done", "error"}

\* the run is over: the generator returned, or an exception left it
Finished == pc \in {"done", "threw"}

-----------------------------------------------------------------------------
(* The claims *)

\* C1: every askStream run emits exactly one terminal event (done or error) and
\* that event is the last one: no event of any kind follows a done or an error,
\* and a finished run has ended with one.
C1_TerminalEventIsLast ==
    /\ \A i \in 1..Len(Events) : IsTerminal(Events[i]) => i = Len(Events)
    /\ Finished => Events /= <<>> /\ IsTerminal(Events[Len(Events)])

\* C2: in one generateAndExecute call generateSQLQuery runs at most twice and
\* executeQuery at most twice; the second generation comes only after the first
\* execution failed and is given the failed statement and its error message; the
\* regenerated statement is the one executed second, and nothing follows it.
C2_RetryBoundedToOne ==
    LET gens == CallsOf("generateSQLQuery")
        execs == CallsOf("executeQuery")
        genAt == CallPositions("generateSQLQuery")
        execAt == CallPositions("executeQuery")
    IN /\ Len(gens) <= 2
       /\ Len(execs) <= 2
       /\ Len(gens) >= 1 => gens[1].content = [last |-> Null, error |-> Null]
       /\ Len(gens) = 2 =>
              /\ Len(execs) >= 1
              /\ ~execs[1].ok
              /\ \E i \in execAt : \A j \in genAt : j > i => \A k \in execAt : k < j => k = i
              /\ gens[2].content.last = Some(execs[1].content)
              /\ gens[2].content.error =
                     Some(<<"Query execution failed: ", "driver error">>)
       /\ Len(execs) = 2 =>
              /\ Len(gens) = 2
              /\ gens[2].ok
              /\ gae.sqlNew = Some(execs[2].content)
              /\ \A i \in genAt : \E j \in execAt : j > i

\* C2 witness: the first execution failed, a statement was regenerated and it
\* was executed
C2_Witness ==
    /\ Len(CallsOf("generateSQLQuery")) = 2
    /\ Len(CallsOf("executeQuery")) = 2
    /\ pc = "resume"

\* C3: when the first execution fails and the regenerated statement executes,
\* generateAndExecute returns the regenerated statement as sql, with the rows
\* that statement produced.
C3_RetryReturnsRegeneratedSql ==
    (pc = "resume" /\ Len(CallsOf("executeQuery")) = 2) =>
        LET result == ValueOf(gae.returned) IN
        /\ result.sql = ValueOf(gae.sqlNew)
        /\ \A i \in 1..Len(result.rows) : result.rows[i][1] = result.sql

\* C4: when the first SQL generation yields the NO_RELEVANT_DATA sentinel,
\* generateAndExecute returns {sql: NO_RELEVANT_DATA, rows: [], executionTime: 0}
\* without raising, and executeQuery is not called.
C4_SentinelShortCircuits ==
    (gae.sql = NO_RELEVANT_DATA) =>
        /\ gae.returned = ReturnOf(NO_RELEVANT_DATA, <<>>, 0)
        /\ CallsOf("executeQuery") = <<>>
        /\ Len(CallsOf("generateSQLQuery")) = 1
        /\ pc = "resume" => err = NoErr

\* C4 witness: generateAndExecute has returned the sentinel to askStream
C4_Witness ==
    /\ pc = "resume"
    /\ gae.sql = NO_RELEVANT_DATA
    /\ CallsOf("generateSQLQuery")[1].ok

\* C5: the cache is advisory: a schema retrieval made while the cache backend
\* fails on get or on set, with the target database answering, still returns
\* the schema computed live and raises nothing.
C5_CacheFailureNotFatal ==
    [][\A redis \in {"readonly", "down"} :
          FetchSchema(redis, "ok") =>
              /\ pc' = "gen1"
              /\ loc'.schema = Some(fetchTableSchema(ProjectTables, "ok").value)]_vars


\* C6 as stated: every finished askStream run has persisted exactly one log
\* entry, whichever path it took: never zero entries and never two.
C6_ExactlyOneLogEntry == Finished => Len(logs) = 1

\* C7: a createLog call that raises does not change what the caller of
\* askStream sees: the events are those emitted before the call, no error
\* event is added, and no exception leaves the generator.
C7_LogFailureInvisible ==
    LET failed == {i \in CallPositions("createLog") : ~trace[i].ok} IN
    failed /= {} =>
        /\ pc /= "threw"
        /\ Events = SelectSeq(SubSeq(trace, 1, Min(failed)), IsEvent)

\* C8: under any interleaving of requests, a (project, model) key never has
\* two live instances: every request for the key holds the same connected one.
C8_OneInstancePerKey ==
    \A i, j \in 1..Len(instances) :
        (/\ instances[i].key = instances[j].key
         /\ instances[i].state = "connected"
         /\ instances[j].state = "connected") => i = j

\* the history holds a character that is not white space
NonBlank(history) == \E i \in 1..Len(history) : history[i] \notin {WS, NL}

\* C9 as stated: the context evaluator is invoked if and only if the chat
\* history is non-empty.
C9_EvaluatorIffHistoryNonEmpty ==
    pc \notin {"idle", "evaluate"} =>
        ((CallsOf("evaluateContext") /= <<>>) <=> (chatHistory /= <<>>))

\* C9 amended: the context evaluator is invoked, once, if and only if the chat
\* history holds a non-blank character; after SUFFICIENT the run answers from
\* the history and fetches no schema, generates no SQL and executes nothing;
\* otherwise it fetches the schema once, generates SQL only after the schema
\* was returned, executes only after a statement was generated, and generates
\* a response from rows only when the execution returned at least one row.
C9_PipelineOrder ==
    LET evals == CallsOf("evaluateContext")
        schemaAt == CallPositions("getTableSchemaAsCSV")
        genAt == CallPositions("generateSQLQuery")
        execAt == CallPositions("executeQuery")
        rowsAt == CallPositions("generateResponseStream")
        historyAt == CallPositions("generateResponseFromHistoryStream")
        sufficient == loc.contextDecision = "SUFFICIENT"
    IN /\ evals /= <<>> => NonBlank(chatHistory)
       /\ (NonBlank(chatHistory) /\ pc /= "evaluate") => Len(evals) = 1
       /\ sufficient => schemaAt = {} /\ genAt = {} /\ execAt = {} /\ rowsAt = {}
       /\ (sufficient /\ pc /= "respondHistory") => Cardinality(historyAt) = 1
       /\ historyAt /= {} => sufficient
       /\ (~sufficient /\ pc \notin {"idle", "evaluate", "schema"}) =>
              Cardinality(schemaAt) = 1
       /\ \A j \in genAt : \E i \in schemaAt : i < j /\ trace[i].ok
       /\ \A k \in execAt : \E j \in genAt :
              j < k /\ trace[j].ok
       /\ \A m \in rowsAt :
              /\ Len(trace[m].content) >= 1
              /\ \E k \in execAt : k < m /\ trace[k].ok /\ \A n \in execAt : n <= k
       /\ pc \in {"logNoData", "logZeroRows"} => rowsAt = {}
       /\ pc = "logSuccess" => Cardinality(rowsAt) = 1

\* C9 witness: a run with a history that needed more data went through the
\* schema, the generation and the execution and answered from the rows
C9_Witness ==
    /\ pc = "done"
    /\ NonBlank(chatHistory)
    /\ loc.contextDecision = "NEED_MORE_DATA"
    /\ CallsOf("generateResponseStream") /= <<>>

\* C10: a failure raised during the schema fetch, the SQL generation, the query
\* execution or the response generation ends the stream with an error event,
\* and the log entry the run persists has status error.
C10_FailuresEndInErrorEvent ==
    LET failedCall(name) == \E i \in CallPositions(name) : ~trace[i].ok
        execs == CallsOf("executeQuery")
        failure == \/ failedCall("getTableSchemaAsCSV")
                   \/ failedCall("generateSQLQuery")
                   \/ execs /= <<>> /\ ~execs[Len(execs)].ok
                   \/ failedCall("generateResponseStream")
                   \/ failedCall("generateResponseFromHistoryStream")
    IN (Finished /\ failure) =>
           /\ Events /= <<>>
           /\ Events[Len(Events)].type = "error"
           /\ logs /= <<>> => logs[1].status = "error"


\* C11: after a completed gateway call, generateContent or
\* generateContentStream, getLastTokenUsage is the usage of that call: the
\* tokenUsage askStream reads right after a response stream that completed is
\* the usage of that response call.
C11_UsageIsOfLatestCall ==
    \A name \in {"generateResponseStream", "generateResponseFromHistoryStream"} :
        (/\ pc \in {"logSuccess", "logSufficient"}
         /\ CallsOf(name) /= <<>>
         /\ CallsOf(name)[1].ok) => loc.tokenUsage = UsageOf(name)


\* C12: lastTokenUsage is shared by the runs of one instance: the token usage a
\* run stores in its log entry is whatever the field held when the run read it,
\* the usage of the latest generateContent call completed on the instance by
\* any run (absent if there was none), which need not be a call of that run.
C12_SharedTokenUsage ==
    /\ \A r \in 1..NumRuns :
           runs[r].pc \in {"logSufficient", "logSuccess", "done", "catch", "threw"} =>
               runs[r].tokenUsage =
                   IF runs[r].sawCall = Null THEN Null
                   ELSE UsageOf(ValueOf(runs[r].sawCall))
    /\ \A i \in 1..Len(logs) :
           logs[i].tokenUsage /= Null =>
               /\ logs[i].status = "success"
               /\ logs[i].tokenUsage = runs[logs[i].chatId].tokenUsage

\* C12 witness: the log entry of a run holds the usage of a call the other run
\* made
C12_Witness ==
    \E i \in 1..Len(logs) :
        /\ logs[i].tokenUsage /= Null
        /\ ValueOf(logs[i].tokenUsage).run /= logs[i].chatId


\* a history that is empty or holds white space only
Blank(history) == \A i \in 1..Len(history) : history[i] \in {WS, NL}

\* C13: evaluateContext called with an empty or whitespace-only chat history
\* returns NEED_MORE_DATA and makes no call to the light model.
C13_BlankHistoryNeedsNoModel ==
    (unit.op = "evaluateContext" /\ Blank(unit.args.history)) =>
        /\ unit.result.decision = "NEED_MORE_DATA"
        /\ unit.result.modelCalls = 0

\* C13 witness: evaluateContext was called with a history of white space only,
\* when the model would have answered SUFFICIENT
C13_Witness ==
    /\ unit.op = "evaluateContext"
    /\ unit.args.history = <<WS, WS>>
    /\ unit.args.ai = AiOk(<<"decision:", "sufficient">>)


\* C14: evaluateContext never raises; it returns SUFFICIENT only when the model
\* call succeeded and its answer holds DECISION: SUFFICIENT; when the call
\* fails or the answer has no parseable decision the result is NEED_MORE_DATA,
\* the run goes on to the schema fetch, and no error event comes of it.
C14_EvaluatorNeverFails ==
    \A i \in CallPositions("evaluateContext") :
        LET ai == trace[i].content.answer
            decides(j, word) ==
                /\ ToUpper(ai.text[j]) = "DECISION:"
                /\ \E k \in (j + 1)..Len(ai.text) :
                       /\ ToUpper(ai.text[k]) = word
                       /\ \A m \in (j + 1)..(k - 1) : ai.text[m] = WS
            saysSufficient == ai.ok /\ \E j \in 1..Len(ai.text) : decides(j, "SUFFICIENT")
            parseable == ai.ok /\ \E j \in 1..Len(ai.text) :
                             decides(j, "SUFFICIENT") \/ decides(j, "NEED_MORE_DATA")
            raised == {k \in (i + 1)..Len(trace) :
                          /\ trace[k].k = "call"
                          /\ trace[k].type \in {"getTableSchemaAsCSV", "generateSQLQuery",
                                                 "executeQuery", "createLog"}
                          /\ ~trace[k].ok}
        IN /\ trace[i].ok
           /\ loc.contextDecision \in {"SUFFICIENT", "NEED_MORE_DATA"}
           /\ loc.contextDecision = "SUFFICIENT" => saysSufficient
           /\ ~parseable =>
                  /\ loc.contextDecision = "NEED_MORE_DATA"
                  /\ pc /= "respondHistory"
                  /\ Len(trace) = i => pc = "schema"
                  /\ Len(trace) > i =>
                         trace[i + 1] = Ev("status", <<"Analyzing database schema...">>)
                  /\ (\E k \in 1..Len(trace) : IsEvent(trace[k]) /\ trace[k].type = "error")
                         => raised /= {}

\* C14 witness: the model call of the evaluator failed and the run went through
\* schema, generation and execution to its done event
C14_Witness ==
    /\ pc = "done"
    /\ \E i \in CallPositions("evaluateContext") : ~trace[i].content.answer.ok
    /\ CallsOf("generateResponseStream") /= <<>>
    /\ Events[Len(Events)].type = "done"


\* the positions in Events of the events of a type
EventPositions(type) == {i \in 1..Len(Events) : Events[i].type = type}

\* C15: a run on the no-relevant-data path emits exactly one or more status
\* events, then one content event with the fixed message, then one done, and
\* no metadata event.
C15_NoDataEventSequence ==
    (/\ gae.returned /= Null
     /\ ValueOf(gae.returned).sql = NO_RELEVANT_DATA
     /\ pc \in {"logNoData", "catch", "done", "threw"}) =>
        LET n == Len(Events) IN
        /\ n >= 3
        /\ \A i \in 1..(n - 2) : Events[i].type = "status"
        /\ Events[n - 1] = Ev("content", NoRelevantDataMessage)
        /\ Events[n] = Ev("done", <<"Done">>)

\* C16: a run whose execution returned rows emits at least one status before
\* its first content, exactly one metadata event, immediately before done, and
\* the rowCount of that metadata is the number of rows the execution returned.
C16_SuccessEventSequence ==
    (CallsOf("generateResponseStream") /= <<>>) =>
        LET meta == EventPositions("metadata")
            done == EventPositions("done")
        IN /\ Cardinality(meta) = 1
           /\ Cardinality(done) = 1
           /\ \A m \in meta : (m + 1) \in done
           /\ \A c \in EventPositions("content") :
                  \E i \in EventPositions("status") : i < c
           /\ \A m \in meta :
                  /\ Events[m].content.rowCount = Len(gae.rows)
                  /\ Events[m].content.rowCount >= 1
                  /\ \E k \in CallPositions("executeQuery") :
                         /\ trace[k].ok
                         /\ \A i \in 1..Len(gae.rows) : gae.rows[i][1] = trace[k].content

\* C16 witness: a finished run whose retried execution returned MaxRows rows
\* and whose answer had content
C16_Witness ==
    /\ pc = "done"
    /\ Len(CallsOf("executeQuery")) = 2
    /\ Len(gae.rows) = MaxRows
    /\ EventPositions("content") /= {}
    /\ EventPositions("metadata") /= {}

\* C17: a status event is emitted before each expensive step starts: the call
\* of the context evaluation, of the schema retrieval, of each SQL generation
\* and execution, and of the response stream comes after the status that
\* announces it.
C17_StatusPrecedesStep ==
    LET announced(name, text) ==
            \A k \in CallPositions(name) :
                \E i \in 1..(k - 1) : trace[i] = Ev("status", <<text>>)
    IN /\ announced("evaluateContext", "Evaluating context...")
       /\ announced("getTableSchemaAsCSV", "Analyzing database schema...")
       /\ announced("generateSQLQuery", "Generating SQL query...")
       /\ announced("executeQuery", "Executing SQL query...")
       /\ announced("generateResponseStream", "Formulating response...")
       /\ announced("generateResponseFromHistoryStream", "Generating response from context...")


\* C18: ask never lets an exception reach its caller: a connection, schema or
\* execution error comes back as "Error: <message>", any other error as
\* "An unexpected error occurred: <message>", and ask writes no audit log entry.
C18_AskNeverThrows ==
    (unit.op = "ask" /\ unit.pc = "returned") =>
        LET r == unit.result IN
        /\ ~r.threw
        /\ r.value /= <<>>
        /\ (r.caught.type \in TypedErrors) => r.value = <<"Error: ">> \o r.caught.msg
        /\ (r.caught.type \notin TypedErrors \cup {"none"}) =>
               r.value = <<"An unexpected error occurred: ">> \o r.caught.msg
        /\ (r.caught.type = "none") =>
               r.value[1] \notin {"Error: ", "An unexpected error occurred: "}
        /\ logs = <<>>

\* C18 witness: a call of ask whose model call failed returned the text of an
\* unexpected error
C18_Witness ==
    /\ unit.op = "ask"
    /\ unit.pc = "returned"
    /\ unit.result.caught.type = "AIServiceError"
    /\ unit.result.value[1] = "An unexpected error occurred: "


\* C19: a log entry carries only the timings of the stages that ran: the timing
\* of a stage that was not measured is absent from the entry, not zero.
C19_OnlyMeasuredTimings ==
    \A n \in 1..Len(logs) :
        LET row == logs[n]
            measured(field, ran) ==
                (row[field] /= Null) => (ran /\ ValueOf(row[field]) > 0)
        IN /\ measured("schemaFetchTimeMs",
                       \E k \in CallPositions("getTableSchemaAsCSV") : trace[k].ok)
           /\ measured("sqlGenerationTimeMs", CallsOf("generateSQLQuery") /= <<>>)
           /\ measured("queryExecutionTimeMs", CallsOf("executeQuery") /= <<>>)
           /\ measured("responseGenerationTimeMs",
                       CallsOf("generateResponseStream") /= <<>>
                       \/ CallsOf("generateResponseFromHistoryStream") /= <<>>)


\* C20: when the first execution and the execution of the regenerated statement
\* both fail, generateAndExecute raises a QueryExecutionError whose query is the
\* second, regenerated statement.
C20_SecondFailureNamesRegenerated ==
    LET execs == CallPositions("executeQuery")
        second == CHOOSE k \in execs : \A j \in execs : j <= k
    IN (/\ Cardinality(execs) = 2
        /\ \A k \in execs : ~trace[k].ok
        /\ pc = "catch") =>
           /\ err.type = "QueryExecutionError"
           /\ err.query = Some(trace[second].content)
           /\ \E g \in CallPositions("generateSQLQuery") :
                  /\ g < second
                  /\ trace[g].content.last /= Null
                  /\ \A k \in execs : ~(g < k /\ k < second)

\* C20 witness: both executions failed and the two statements differ
C20_Witness ==
    /\ pc = "catch"
    /\ Len(CallsOf("executeQuery")) = 2
    /\ \A i \in 1..2 : ~CallsOf("executeQuery")[i].ok
    /\ CallsOf("executeQuery")[1].content /= CallsOf("executeQuery")[2].content
    /\ err.query = Some(<<"SELECT", " ", "2">>)


\* the cache failed during the formatForPrompt call recorded in unit: the get
\* raised, or the entry was missing and the set raised
RuleCacheFailed ==
    \/ ~GetUp(unit.args.redis)
    \/ unit.args.before = Null /\ ~SetUp(unit.args.redis)

\* C21 as stated: with a rule configured and the cache failing on get or set,
\* formatForPrompt returns the in-memory rule wrapped in the "Business Rules:"
\* section.
C21_ConfiguredRuleAlwaysWrapped ==
    (unit.op = "formatForPrompt" /\ unit.args.businessRule /= <<>> /\ RuleCacheFailed) =>
        unit.result.value = <<NL, "Business Rules:", NL>> \o unit.args.businessRule \o <<NL>>

\* C21 amended: formatForPrompt never raises; with no rule configured it
\* returns the empty text without asking the cache; with a rule configured and
\* the cache failing on get or set it returns the in-memory rule wrapped in the
\* "Business Rules:" section when the rule holds a non-blank character, and the
\* empty text when the rule is blank.
C21_FormatForPromptNeverRaises ==
    (unit.op = "formatForPrompt") =>
        LET rule == unit.args.businessRule IN
        /\ unit.result.ok
        /\ (rule = <<>>) => (unit.result.value = <<>> /\ ~unit.result.cacheUsed)
        /\ (rule /= <<>>) => unit.result.cacheUsed
        /\ (rule /= <<>> /\ RuleCacheFailed) =>
               unit.result.value =
                   (IF NonBlank(rule) THEN <<NL, "Business Rules:", NL>> \o rule \o <<NL>>
                    ELSE <<>>)

\* C21 witness: the cache was down and the configured rule came back wrapped
C21_Witness ==
    /\ unit.op = "formatForPrompt"
    /\ unit.args.redis = "down"
    /\ unit.result.value = <<NL, "Business Rules:", NL, "rule", NL>>


\* the reads that go through the cache
CachedReads == {"formatForPrompt", "getTableSchemaAsCSV", "getAvailableTables"}

\* C22: with a working cache and nothing in between, a second call of
\* formatForPrompt, of getTableSchemaAsCSV with the same table names, or of
\* getAvailableTables returns the value the first call returned and does not
\* invoke the factory.
C22_SecondCallServedFromCache ==
    [][(/\ unit.op \in CachedReads
        /\ unit.args.redis = "up"
        /\ unit.result.ok
        /\ unit'.op = unit.op
        /\ unit'.args.redis = "up"
        /\ (unit.op = "formatForPrompt") => unit'.args.businessRule = unit.args.businessRule
        /\ (unit.op = "getTableSchemaAsCSV") => unit'.args.tableNames = unit.args.tableNames)
       => (/\ unit'.result.ok
           /\ unit'.result.value = unit.result.value
           /\ ~unit'.result.factoryRan)]_vars

\* C22 witness: a call of getTableSchemaAsCSV while the database is lost that
\* was served with the entry an earlier call had stored
C22_Witness ==
    /\ unit.op = "getTableSchemaAsCSV"
    /\ unit.args.redis = "up"
    /\ unit.args.db = "tablesFail"
    /\ unit.args.before /= Null
    /\ unit.result.ok
    /\ ~unit.result.factoryRan
    /\ Len(unit.result.value) > 1


\* String.prototype.split: the parts of a text between the separators
RECURSIVE Split(_, _)
Split(text, sep) ==
    IF \A i \in 1..Len(text) : text[i] /= sep THEN <<text>>
    ELSE LET i == CHOOSE j \in 1..Len(text) :
                      text[j] = sep /\ \A k \in 1..(j - 1) : text[k] /= sep
         IN <<SubSeq(text, 1, i - 1)>> \o Split(SubSeq(text, i + 1, Len(text)), sep)

\* the (table, column) pairs of the requested tables that exist, tables in the
\* order of the request and columns in ordinal position
RECURSIVE RequestedColumns(_)
RequestedColumns(tableNames) ==
    IF tableNames = <<>> THEN <<>>
    ELSE (IF Includes(DbTables, Head(tableNames))
          THEN [i \in 1..Len(DbColumns(Head(tableNames))) |->
                    <<Head(tableNames), DbColumns(Head(tableNames))[i][1]>>]
          ELSE <<>>)
         \o RequestedColumns(Tail(tableNames))

\* C23: on a cache miss getTableSchemaAsCSV returns one header line followed by
\* exactly one line per column of each requested table that exists, columns in
\* ordinal position; an unknown name adds no line and does not fail the call;
\* a table whose sample probe fails is included with empty sample values.
C23_OneLinePerColumn ==
    (/\ unit.op = "getTableSchemaAsCSV"
     /\ unit.args.before = Null
     /\ unit.args.redis = "up") =>
        LET lines == Split(unit.result.value, NL)
            pairs == RequestedColumns(unit.args.tableNames)
        IN /\ unit.result.ok <=> unit.args.db \in {"ok", "sampleFail"}
           /\ unit.result.ok =>
                  /\ lines[1] = CsvHeader
                  /\ Len(lines) = 1 + Len(pairs)
                  /\ \A k \in 1..Len(pairs) :
                         LET fields == Split(lines[k + 1], ",") IN
                         /\ Len(fields) = 5
                         /\ fields[1] = <<pairs[k][1]>>
                         /\ fields[2] = <<pairs[k][2]>>
                         /\ (unit.args.db = "sampleFail") => fields[5] = <<>>


\* C24: the executionTime generateAndExecute returns is the time of the
\* execution step only: the time spent in its executeQuery calls, with no
\* generateSQLQuery call inside the measured interval.
C24_ExecutionTimeExcludesGeneration ==
    (gae.returned /= Null) =>
        ValueOf(gae.returned).executionTime = Tick * Len(CallsOf("executeQuery"))


\* C25: what the response stream yields reaches the client as content events
\* that carry text chunks only; a generate_chart invocation is not among them,
\* it is an event of kind chart.
C25_ContentCarriesTextOnly ==
    \A k \in CallPositions("generateResponseStream")
              \cup CallPositions("generateResponseFromHistoryStream") :
        \A i \in (k + 1)..Len(trace) :
            (IsEvent(trace[i]) /\ trace[i].type = "content") =>
                trace[i].content.type = "text"


\* C26: ask sequences the stages askStream sequences: called with a history
\* that holds a non-blank character, it evaluates the context first, as
\* askStream does, and fetches the schema only after that.
C26_AskEvaluatesContextFirst ==
    (unit.op = "ask" /\ unit.pc = "returned" /\ NonBlank(unit.chatHistory)) =>
        Head(unit.calls) = "evaluateContext"


\* C27: every statement generateAndExecute passes to executeQuery has passed
\* validation, and the NO_RELEVANT_DATA sentinel is never sent to the database,
\* whether it comes from the first generation or from the regeneration.
C27_OnlyValidatedStatementsExecuted ==
    \A k \in CallPositions("executeQuery") :
        /\ isValidSQL(trace[k].content)
        /\ trace[k].content /= NO_RELEVANT_DATA


\* C28: the status of the log entry of a run matches the run's outcome: it is
\* success iff the run ended with done after generating a response, from the
\* history or from rows; no_data iff it ended with done after the sentinel or
\* after an execution that returned no rows; error iff it ended with an error
\* event.
C28_LogStatusMatchesOutcome ==
    \A n \in 1..Len(logs) :
        LET last == Events[Len(Events)].type
            responded == \/ CallsOf("generateResponseStream") /= <<>>
                         \/ CallsOf("generateResponseFromHistoryStream") /= <<>>
        IN /\ logs[n].status \in {"success", "no_data", "error"}
           /\ (logs[n].status = "success") <=> (last = "done" /\ responded)
           /\ (logs[n].status = "no_data") <=> (last = "done" /\ ~responded)
           /\ (logs[n].status = "error") <=> (last = "error")

\* C28 witness: a run whose statement executed and returned no rows ended with
\* done and logged no_data
C28_Witness ==
    /\ pc = "done"
    /\ Len(logs) = 1
    /\ logs[1].status = "no_data"
    /\ \E k \in CallPositions("executeQuery") : trace[k].ok


\* C29: every assistant instance a request obtains from the registry is
\* connected: an instance enters the registry only when its connect succeeded,
\* and no request obtains an instance whose disconnect has already started.
C29_ObtainedInstanceIsConnected ==
    [][/\ \A r \in 1..NumRequests :
              (req[r].pc /= "got" /\ req'[r].pc = "got") =>
                  /\ instances'[req'[r].inst].state = "connected"
                  /\ ~(disc'.pc = "ending" /\ disc'.inst = req'[r].inst)
       /\ \A i \in 1..Len(registry') :
              (~MapHas(registry, registry'[i][1])) =>
                  instances'[registry'[i][2]].state = "connected"]_vars


\* the tables a schema text lists, line by line after the header
TablesListed(text) ==
    LET lines == Tail(Split(text, NL))
        firsts == [k \in 1..Len(lines) |-> Split(lines[k], ",")[1]]
        names(f) == \E i \in 1..Len(DbTables) : f = <<DbTables[i]>>
    IN SelectSeq(firsts, names)

\* C30: whether served from the cache or computed, the text getTableSchemaAsCSV
\* returns lists the rows of the existing tables in the order their names have
\* in tableNames, one row per table-column pair, whatever was called before.
C30_RowsFollowRequestOrder ==
    (unit.op = "getTableSchemaAsCSV" /\ unit.result.ok) =>
        LET pairs == RequestedColumns(unit.args.tableNames) IN
        TablesListed(unit.result.value) = [k \in 1..Len(pairs) |-> <<pairs[k][1]>>]

=============================================================================
